---------------------------- MODULE Spec2Model ----------------------------
(***************************************************************************)
(* Plugin lifecycle manager of the extension host: PluginLoader            *)
(* (src/core/plugin_loader.py), the accessors of ConfigManager it reads    *)
(* (src/core/config.py) and the hot-reload watcher of MCPServer            *)
(* (src/core/server.py).                                                   *)
(*                                                                         *)
(* Strings the code takes apart (paths, module names) are sequences of     *)
(* tokens, so that os.path.join, filename[:-3], str.startswith and the     *)
(* f-string of the module name are computed and not assumed.               *)
(*                                                                         *)
(* sys.modules is left out: the loader writes and deletes its entries but  *)
(* never branches on them.                                                 *)
(***************************************************************************)
EXTENDS Integers, Sequences, FiniteSets, TLC

VARIABLES
    loaded_plugins,   \* PluginLoader.loaded_plugins : id -> module
    plugin_paths,     \* PluginLoader.plugin_paths   : id -> path
    loaded_modules,   \* PluginLoader.loaded_modules : set of module names
    config,           \* ConfigManager.config, the part the loader reads
    files,            \* the plugin files on disk: slot -> [prof, mtime]
    clock,            \* the file system's modification clock
    watcher,          \* the _watch_files task: [pc, plugin_dirs, file_mtimes]
    lastOp,           \* the last call: its arguments, result and trace
    view,             \* the mapping a caller of get_loaded_plugins holds
    store,            \* a ConfigManager: [config, writes], config its tree
    cfgOp,            \* the last ConfigManager call: arguments, result
    loop              \* the watcher's place in a cycle: what is left to scan

vars == <<loaded_plugins, plugin_paths, loaded_modules,
          config, files, clock, watcher, lastOp, view, store, cfgOp, loop>>

---------------------------------------------------------------------------
(* Bounds *)

\* Number of writes to plugin files in one behaviour.
MaxClock == 2

\* Number of ConfigManager.set calls after one load_config.
MaxWrites == 1

---------------------------------------------------------------------------
(* Strings *)

\* str.startswith
StartsWith(s, p) ==
    /\ Len(p) <= Len(s)
    /\ SubSeq(s, 1, Len(p)) = p

\* str.endswith
EndsWith(s, p) ==
    /\ Len(p) <= Len(s)
    /\ SubSeq(s, Len(s) - Len(p) + 1, Len(s)) = p

\* os.path.join(directory, filename)
PathJoin(directory, filename) == directory \o <<"/">> \o filename

\* A configuration value: a string, or JSON null (None).
Str(s) == [t |-> "str", v |-> s]
Null == [t |-> "null", v |-> <<>>]
IsStr(x) == x.t = "str"

PluginTypes == <<"resources", "prompts", "tools", "sampling">>
Kinds == {PluginTypes[i] : i \in DOMAIN PluginTypes}
Ids == {"a", "b"}

\* f"{plugin_type}.{plugin_id}"
ModuleName(plugin_type, plugin_id) == <<plugin_type, ".", plugin_id>>

\* The file name of plugin `id`, and filename[:-3].
FileName(id) == <<id, ".py">>
PluginId(filename) == SubSeq(filename, 1, Len(filename) - 1)[1]

\* filename.endswith(".py") and not filename.startswith("__")
IsPluginFile(filename) ==
    EndsWith(filename, <<".py">>) /\ ~StartsWith(filename, <<"__">>)

EmptyMap == [x \in {} |-> 0]
Put(f, k, v) == [x \in DOMAIN f \cup {k} |-> IF x = k THEN v ELSE f[x]]
Del(f, k) == [x \in DOMAIN f \ {k} |-> f[x]]

---------------------------------------------------------------------------
(* The file system *)

\* f"plugins/{plugin_type}"
DefaultDir(plugin_type) == <<"plugins", "/", plugin_type>>

\* A path that exists and is a regular file, not a directory.
PlainFile == <<"plugins", "/", "README">>

\* The directories on disk: the repository ships plugins/resources,
\* plugins/prompts and plugins/tools (and plugins/samplers, which no kind
\* is configured to use: plugins/sampling does not exist), all in plugins,
\* which holds no plugin file of its own.
ExistingDirs ==
    {<<"plugins">>, DefaultDir("resources"), DefaultDir("prompts"), DefaultDir("tools")}

\* The places a plugin file can be written to: <<directory, id>>.
FileSlots == {<<DefaultDir("prompts"), "a">>,
              <<DefaultDir("tools"), "a">>,
              <<DefaultDir("tools"), "b">>}

SlotPath(slot) == PathJoin(slot[1], FileName(slot[2]))

\* What a plugin file does when it is imported and its entry points run.
Profiles == {"import_error", "no_setup", "setup_raises",
             "ok", "ok_teardown", "ok_teardown_raises"}
NoFile == [prof |-> "absent", mtime |-> 0]

\* A symbolic link whose target is gone: os.listdir lists it, and open,
\* os.path.exists and os.path.getmtime follow it and find no file.
Dangling == [prof |-> "dangling", mtime |-> 0]

\* The contents each file is written with: every profile occurs, the two
\* files of id a can both load, and the tools directory can hold a file that
\* fails next to one that loads.
Contents(slot) ==
    IF slot = <<DefaultDir("prompts"), "a">>
    THEN {"setup_raises", "ok_teardown", "ok_teardown_raises"}
    ELSE IF slot = <<DefaultDir("tools"), "a">>
    THEN {"import_error", "ok"}
    ELSE {"no_setup", "ok"}

ExecRaises(prof) == prof \in {"absent", "dangling", "import_error"}
GetmtimeRaises(prof) == prof \in {"absent", "dangling"}
HasSetup(prof) == prof \in {"setup_raises", "ok", "ok_teardown", "ok_teardown_raises"}
SetupRaises(prof) == prof = "setup_raises"
HasTeardown(prof) == prof \in {"ok_teardown", "ok_teardown_raises"}
TeardownRaises(prof) == prof = "ok_teardown_raises"

\* os.path.exists(path), for a string path
PathExists(path) ==
    \/ path \in ExistingDirs
    \/ path = PlainFile
    \/ \E slot \in FileSlots : SlotPath(slot) = path /\ files[slot] \notin {NoFile, Dangling}

\* The file at `path`, NoFile when there is none.
FileAt(path) ==
    IF \E slot \in FileSlots : SlotPath(slot) = path
    THEN files[CHOOSE slot \in FileSlots : SlotPath(slot) = path]
    ELSE NoFile

\* The plugin ids os.listdir(directory) yields file names for.
Listed(directory) ==
    {id \in Ids : <<directory, id>> \in FileSlots /\ files[<<directory, id>>] # NoFile}

---------------------------------------------------------------------------
(* ConfigManager: the accessors the loader and the watcher call *)

\* ConfigManager.get("plugins.directories.<plugin_type>", default)
get_plugin_directory(plugin_type) ==
    IF plugin_type \in DOMAIN config.directories
    THEN config.directories[plugin_type]
    ELSE Str(DefaultDir(plugin_type))

\* Mutant: the ids the scan before skipped are remembered as disabled.
is_plugin_disabled_Cached(plugin_id) ==
    \/ plugin_id \in config.disabled
    \/ \E i \in DOMAIN lastOp.trace :
          lastOp.trace[i].ev = "skip_disabled" /\ lastOp.trace[i].id = plugin_id

\* plugin_id in ConfigManager.get("plugins.disabled", [])
is_plugin_disabled(plugin_id) == plugin_id \in config.disabled

---------------------------------------------------------------------------
(* A call in progress *)

\* The registry as a call sees and changes it, the watcher's file_mtimes,
\* what the call has logged and invoked so far (trace), the exception that is
\* propagating ("" when none) and the value returned.
Begin ==
    [loaded_plugins |-> loaded_plugins, plugin_paths |-> plugin_paths,
     loaded_modules |-> loaded_modules,
     file_mtimes |-> watcher.file_mtimes,
     trace |-> <<>>, exc |-> "", result |-> "None"]

\* One entry of a call's trace: a logger call or a lifecycle call (setup,
\* teardown) of a module, with the registry a reader sees at that moment.
Entry(s, ev, plugin_type, plugin_id, ok) ==
    [ev |-> ev, kind |-> plugin_type, id |-> plugin_id, ok |-> ok,
     seen |-> s.loaded_plugins]

Log(s, ev, plugin_type, plugin_id) ==
    [s EXCEPT !.trace = Append(@, Entry(s, ev, plugin_type, plugin_id, TRUE))]

\* module.setup(mcp) or module.teardown(): the call is made with the registry
\* as it is, and raises when `ok` is FALSE.
Call(s, ev, module, ok) ==
    [s EXCEPT !.trace = Append(@, Entry(s, ev, module.kind, module.id, ok)),
              !.exc = IF ok THEN "" ELSE "Exception"]

Raise(s, exception) == [s EXCEPT !.exc = exception]
Return(s, value) == [s EXCEPT !.result = value]

\* The module object importlib builds from the file at file_path; setup_done
\* is the module's own state, set once its setup has returned.
NewModule(plugin_type, plugin_id, file_path) ==
    [kind |-> plugin_type, id |-> plugin_id, prof |-> FileAt(file_path).prof,
     setup_done |-> FALSE]

---------------------------------------------------------------------------
(* PluginLoader._load_plugin_file *)

\* Mutant: the check of loaded_modules is missing.
AlreadyLoaded_Never(s, module_name) == FALSE

\* if module_name in self.loaded_modules
AlreadyLoaded(s, module_name) == module_name \in s.loaded_modules

\* The three assignments after a successful setup.
Register(s, module, plugin_id, file_path, module_name) ==
    [s EXCEPT !.loaded_plugins = Put(@, plugin_id, module),
              !.plugin_paths = Put(@, plugin_id, file_path),
              !.loaded_modules = @ \cup {module_name}]

\* Mutant: the module is registered before its setup is called.
SetupAndRegister_Early(s, module, plugin_id, file_path, module_name) ==
    IF HasSetup(module.prof)
    THEN LET s0 == Register(s, module, plugin_id, file_path, module_name)
             s1 == Call(s0, "setup", module, ~SetupRaises(module.prof))
         IN  IF s1.exc # "" THEN s1
             ELSE Log([s1 EXCEPT !.loaded_plugins[plugin_id].setup_done = TRUE],
                      "loaded", module.kind, plugin_id)
    ELSE Log(s, "no_setup", module.kind, plugin_id)

\* Mutant: hasattr is not checked, a module without setup is registered as is.
SetupAndRegister_NoHasattr(s, module, plugin_id, file_path, module_name) ==
    LET s1 == IF HasSetup(module.prof)
              THEN Call(s, "setup", module, ~SetupRaises(module.prof))
              ELSE s
    IN  IF s1.exc # "" THEN s1
        ELSE Log(Register(s1, [module EXCEPT !.setup_done = HasSetup(module.prof)],
                          plugin_id, file_path, module_name),
                 "loaded", module.kind, plugin_id)

\* if hasattr(module, 'setup'): setup, then register; else: warn.
SetupAndRegister(s, module, plugin_id, file_path, module_name) ==
    IF HasSetup(module.prof)
    THEN LET s1 == Call(s, "setup", module, ~SetupRaises(module.prof))
         IN  IF s1.exc # "" THEN s1
             ELSE Log(Register(s1, [module EXCEPT !.setup_done = TRUE],
                               plugin_id, file_path, module_name),
                      "loaded", module.kind, plugin_id)
    ELSE Log(s, "no_setup", module.kind, plugin_id)

\* The body of the try block.
LoadBody(s, plugin_id, file_path, plugin_type) ==
    LET module_name == ModuleName(plugin_type, plugin_id)
    IN  IF AlreadyLoaded(s, module_name)
        THEN Log(s, "already_loaded", plugin_type, plugin_id)
        ELSE IF ExecRaises(FileAt(file_path).prof)
             THEN Raise(s, "Exception")
             ELSE SetupAndRegister(s, NewModule(plugin_type, plugin_id, file_path),
                                   plugin_id, file_path, module_name)

\* Mutant: no except clause, the exception leaves _load_plugin_file.
LoadCatch_Propagate(s, plugin_type, plugin_id) == s

\* except Exception as e: logger.error(...)
LoadCatch(s, plugin_type, plugin_id) ==
    IF s.exc # ""
    THEN [Log(s, "load_failed", plugin_type, plugin_id) EXCEPT !.exc = ""]
    ELSE s

load_plugin_file(s, plugin_id, file_path, plugin_type) ==
    LoadCatch(LoadBody(s, plugin_id, file_path, plugin_type), plugin_type, plugin_id)

---------------------------------------------------------------------------
(* PluginLoader.reload_plugin *)

\* Mutant: a path that matches no directory is taken to be of the first kind.
ReloadType_FirstKind(file_path, i) ==
    IF \E j \in DOMAIN PluginTypes :
          /\ IsStr(get_plugin_directory(PluginTypes[j]))
          /\ StartsWith(file_path, get_plugin_directory(PluginTypes[j]).v)
    THEN [t |-> PluginTypes[CHOOSE j \in DOMAIN PluginTypes :
                    /\ IsStr(get_plugin_directory(PluginTypes[j]))
                    /\ StartsWith(file_path, get_plugin_directory(PluginTypes[j]).v)],
          exc |-> ""]
    ELSE [t |-> PluginTypes[1], exc |-> ""]

\* for t in [...]: if file_path.startswith(get_plugin_directory(t)): break
\* str.startswith raises TypeError when the directory is not a string.
RECURSIVE ReloadType(_, _)
ReloadType(file_path, i) ==
    IF i > Len(PluginTypes) THEN [t |-> "", exc |-> ""]
    ELSE LET d == get_plugin_directory(PluginTypes[i])
         IN  IF ~IsStr(d) THEN [t |-> "", exc |-> "TypeError"]
             ELSE IF StartsWith(file_path, d.v) THEN [t |-> PluginTypes[i], exc |-> ""]
             ELSE ReloadType(file_path, i + 1)

\* Mutant: the teardown of the module that is replaced is called first.
ReloadBody_Teardown(s, plugin_id) ==
    LET file_path == s.plugin_paths[plugin_id]
        found == ReloadType(file_path, 1)
        module == s.loaded_plugins[plugin_id]
        module_name == ModuleName(found.t, plugin_id)
        s0 == IF HasTeardown(module.prof) THEN Call(s, "teardown", module, TRUE) ELSE s
        s1 == [s0 EXCEPT !.loaded_plugins = Del(@, plugin_id),
                         !.loaded_modules = @ \ {module_name}]
        s2 == load_plugin_file(s1, plugin_id, file_path, found.t)
    IN  IF found.exc # "" THEN Raise(s, found.exc)
        ELSE IF found.t = "" THEN Return(Log(s, "unknown_type", "", plugin_id), "False")
        ELSE IF s2.exc # "" THEN s2
        ELSE Return(Log(s2, "reloaded", found.t, plugin_id), "True")

\* The body of the try block.
ReloadBody(s, plugin_id) ==
    LET file_path == s.plugin_paths[plugin_id]
        found == ReloadType(file_path, 1)
        module_name == ModuleName(found.t, plugin_id)
        s1 == [s EXCEPT !.loaded_plugins = Del(@, plugin_id),
                        !.loaded_modules = @ \ {module_name}]
        s2 == load_plugin_file(s1, plugin_id, file_path, found.t)
    IN  IF found.exc # "" THEN Raise(s, found.exc)
        ELSE IF found.t = "" THEN Return(Log(s, "unknown_type", "", plugin_id), "False")
        ELSE IF s2.exc # "" THEN s2
        ELSE Return(Log(s2, "reloaded", found.t, plugin_id), "True")

\* Mutant: no except clause, the exception leaves reload_plugin.
ReloadCatch_Propagate(s, plugin_id) == s

\* except Exception as e: logger.error(...); return False
ReloadCatch(s, plugin_id) ==
    IF s.exc # ""
    THEN Return([Log(s, "reload_failed", "", plugin_id) EXCEPT !.exc = ""], "False")
    ELSE s

\* Mutant: only plugin_paths is consulted.
ReloadNotLoaded_PathsOnly(s, plugin_id) == plugin_id \notin DOMAIN s.plugin_paths

\* if plugin_id not in self.loaded_plugins or plugin_id not in self.plugin_paths
ReloadNotLoaded(s, plugin_id) ==
    plugin_id \notin DOMAIN s.loaded_plugins \/ plugin_id \notin DOMAIN s.plugin_paths

reload_plugin(s, plugin_id) ==
    IF ReloadNotLoaded(s, plugin_id)
    THEN Return(Log(s, "not_loaded", "", plugin_id), "False")
    ELSE ReloadCatch(ReloadBody(s, plugin_id), plugin_id)

---------------------------------------------------------------------------
(* PluginLoader.unload_plugin *)

\* Mutant: the identity keys of the id stay in loaded_modules.
UnloadBody_KeepsKeys(s, plugin_id) ==
    LET module == s.loaded_plugins[plugin_id]
        s1 == IF HasTeardown(module.prof)
              THEN Call(s, "teardown", module, ~TeardownRaises(module.prof))
              ELSE s
        s2 == [s1 EXCEPT !.loaded_plugins = Del(@, plugin_id)]
        s3 == [s2 EXCEPT !.plugin_paths = Del(@, plugin_id)]
    IN  IF s1.exc # "" THEN s1
        ELSE IF plugin_id \notin DOMAIN s2.plugin_paths THEN Raise(s2, "KeyError")
        ELSE Return(Log(s3, "unloaded", "", plugin_id), "True")

\* The body of the try block: teardown, then the deletions.
UnloadBody(s, plugin_id) ==
    LET module == s.loaded_plugins[plugin_id]
        s1 == IF HasTeardown(module.prof)
              THEN Call(s, "teardown", module, ~TeardownRaises(module.prof))
              ELSE s
        s2 == [s1 EXCEPT !.loaded_plugins = Del(@, plugin_id)]
        names == {ModuleName(PluginTypes[i], plugin_id) : i \in DOMAIN PluginTypes}
        s3 == [s2 EXCEPT !.loaded_modules = @ \ names,
                         !.plugin_paths = Del(@, plugin_id)]
    IN  IF s1.exc # "" THEN s1
        ELSE IF plugin_id \notin DOMAIN s2.plugin_paths THEN Raise(s2, "KeyError")
        ELSE Return(Log(s3, "unloaded", "", plugin_id), "True")

\* except Exception as e: logger.error(...); return False
UnloadCatch(s, plugin_id) ==
    IF s.exc # ""
    THEN Return([Log(s, "unload_failed", "", plugin_id) EXCEPT !.exc = ""], "False")
    ELSE s

\* if plugin_id not in self.loaded_plugins
UnloadNotLoaded(s, plugin_id) == plugin_id \notin DOMAIN s.loaded_plugins

unload_plugin(s, plugin_id) ==
    IF UnloadNotLoaded(s, plugin_id)
    THEN Return(Log(s, "not_loaded", "", plugin_id), "False")
    ELSE UnloadCatch(UnloadBody(s, plugin_id), plugin_id)

---------------------------------------------------------------------------
(* PluginLoader.load_plugins_by_type, load_all_plugins *)

\* os.listdir(directory) in the order `order` happens to give the ids.
ListDir(directory, order) ==
    LET InDir(id) == id \in Listed(directory)
        ids == SelectSeq(order, InDir)
    IN  [i \in DOMAIN ids |-> FileName(ids[i])]

\* One file of the scan: the name filter, the disabled check, the load.
ScanFile(s, directory, filename, plugin_type) ==
    IF ~IsPluginFile(filename) THEN s
    ELSE IF is_plugin_disabled(PluginId(filename))
         THEN Log(s, "skip_disabled", plugin_type, PluginId(filename))
         ELSE load_plugin_file(s, PluginId(filename),
                               PathJoin(directory, filename), plugin_type)

\* for filename in os.listdir(directory): an exception ends the loop.
RECURSIVE ScanFiles(_, _, _, _)
ScanFiles(s, directory, filenames, plugin_type) ==
    IF filenames = <<>> \/ s.exc # "" THEN s
    ELSE ScanFiles(ScanFile(s, directory, Head(filenames), plugin_type),
                   directory, Tail(filenames), plugin_type)

\* os.path.exists raises TypeError for None; os.listdir raises
\* NotADirectoryError for a path that is a regular file.
load_plugins_by_type(s, plugin_type, order) ==
    LET directory == get_plugin_directory(plugin_type)
    IN  IF ~IsStr(directory) THEN Raise(s, "TypeError")
        ELSE IF ~PathExists(directory.v)
             THEN Log(s, "dir_missing", plugin_type, "")
        ELSE IF directory.v \notin ExistingDirs
             THEN Raise(s, "NotADirectoryError")
        ELSE ScanFiles(s, directory.v, ListDir(directory.v, order), plugin_type)

\* for plugin_type in plugin_types: an exception ends the loop.
RECURSIVE LoadTypes(_, _, _)
LoadTypes(s, i, order) ==
    IF i > Len(PluginTypes) \/ s.exc # "" THEN s
    ELSE LoadTypes(load_plugins_by_type(s, PluginTypes[i], order), i + 1, order)

load_all_plugins(s, order) == LoadTypes(s, 1, order)

---------------------------------------------------------------------------
(* MCPServer._setup_hot_reload._watch_files: one pass of the while loop *)

\* plugin_dirs = [get_plugin_directory(t) for t in [...]], computed when the
\* task first runs.
PluginDirs == [i \in DOMAIN PluginTypes |-> get_plugin_directory(PluginTypes[i])]

\* for t in [...]: if directory == get_plugin_directory(t): break
RECURSIVE WatchType(_, _)
WatchType(directory, i) ==
    IF i > Len(PluginTypes) THEN ""
    ELSE IF Str(directory) = get_plugin_directory(PluginTypes[i]) THEN PluginTypes[i]
    ELSE WatchType(directory, i + 1)

\* The inner try block, entered for a file that is new or was modified.
WatchChanged(s, directory, file_path, plugin_id) ==
    LET plugin_type == WatchType(directory, 1)
    IN  IF plugin_id \in DOMAIN s.loaded_plugins
        THEN reload_plugin(Log(s, "changed", "", plugin_id), plugin_id)
        ELSE IF plugin_type # ""
             THEN load_plugin_file(Log(s, "new", plugin_type, plugin_id),
                                   plugin_id, file_path, plugin_type)
             ELSE s

\* Mutant: the try around the check of one file is missing.
WatchFileCatch_Propagate(s, plugin_id) == s

\* except Exception as e: logger.error(...)
WatchFileCatch(s, plugin_id) ==
    IF s.exc # ""
    THEN [Log(s, "check_failed", "", plugin_id) EXCEPT !.exc = ""]
    ELSE s

\* Mutant: the modification time seen is not recorded.
RecordMtime_Never(s, file_path, mtime) == s

\* Mutant: the time recorded is not the one just read.
RecordMtime_Stale(s, file_path, mtime) ==
    [s EXCEPT !.file_mtimes = Put(@, file_path, mtime - 1)]

\* file_mtimes[file_path] = mtime
RecordMtime(s, file_path, mtime) == [s EXCEPT !.file_mtimes = Put(@, file_path, mtime)]

\* The inner try block: getmtime, the comparison, the record, the dispatch.
WatchFileBody(s, directory, file_path, plugin_id) ==
    LET mtime == FileAt(file_path).mtime
    IN  IF GetmtimeRaises(FileAt(file_path).prof) THEN Raise(s, "FileNotFoundError")
        ELSE IF file_path \notin DOMAIN s.file_mtimes \/ s.file_mtimes[file_path] # mtime
             THEN WatchChanged(Log(RecordMtime(s, file_path, mtime),
                                   IF file_path \notin DOMAIN s.file_mtimes
                                   THEN "first_seen" ELSE "modified", "", plugin_id),
                               directory, file_path, plugin_id)
             ELSE s

\* One file of one directory.
WatchFile(s, directory, filename) ==
    LET file_path == PathJoin(directory, filename)
        plugin_id == PluginId(filename)
    IN  IF ~IsPluginFile(filename) THEN s
        ELSE WatchFileCatch(WatchFileBody(s, directory, file_path, plugin_id), plugin_id)

RECURSIVE WatchFiles(_, _, _)
WatchFiles(s, directory, filenames) ==
    IF filenames = <<>> \/ s.exc # "" THEN s
    ELSE WatchFiles(WatchFile(s, directory, Head(filenames)), directory, Tail(filenames))

\* for directory in plugin_dirs: an exception ends the loop.
RECURSIVE WatchDirs(_, _, _, _)
WatchDirs(s, plugin_dirs, i, order) ==
    IF i > Len(plugin_dirs) \/ s.exc # "" THEN s
    ELSE LET directory == plugin_dirs[i]
             s1 == IF ~IsStr(directory) THEN Raise(s, "TypeError")
                   ELSE IF ~PathExists(directory.v) THEN s
                   ELSE IF directory.v \notin ExistingDirs
                        THEN Raise(s, "NotADirectoryError")
                   ELSE WatchFiles(s, directory.v, ListDir(directory.v, order))
         IN  WatchDirs(s1, plugin_dirs, i + 1, order)

\* Mutant: the try around the cycle is missing.
WatchCycleCatch_Propagate(s) == s

\* except Exception as e: logger.error(...), then the sleep.
WatchCycleCatch(s) ==
    IF s.exc # ""
    THEN [Log(s, "cycle_failed", "", "") EXCEPT !.exc = ""]
    ELSE s

watch_files(s, plugin_dirs, order) ==
    Return(WatchCycleCatch(WatchDirs(s, plugin_dirs, 1, order)), "None")

---------------------------------------------------------------------------
(* _watch_files as a coroutine: where it is inside a cycle *)

\* What the check of a file has decided and not yet done: nothing, or the
\* reload or the load of plugin id, with the registry the check saw.
NoPending == [act |-> "none", id |-> "", file_path |-> <<>>, seen |-> EmptyMap]

\* The loop variables of a cycle: the directories still to go through, the
\* directory being listed and the file names of it still to check.
NoLoop == [dirs |-> <<>>, directory |-> <<>>, todo |-> <<>>, pending |-> NoPending]

\* Mutant: the coroutine also awaits between the check of a file and the
\* reload or load it triggers.
SuspensionPoints_AfterCheck == {"off", "created", "sleeping", "dead", "checked"}

\* The places where the coroutine is not running: no task ("off"), the task
\* created and not yet started, the one await of the loop (the sleep), and the
\* task ended.  Inside a cycle ("scanning", "checked") there is no await.
SuspensionPoints == {"off", "created", "sleeping", "dead"}

---------------------------------------------------------------------------
(* PluginLoader.get_loaded_plugins *)

\* Mutant: return self.loaded_plugins, the registry's own dict.
get_loaded_plugins_NoCopy(s) == Return(s, [ref |-> "registry", map |-> EmptyMap])

\* return self.loaded_plugins.copy(): a new dict with the same entries.
get_loaded_plugins(s) == Return(s, [ref |-> "copy", map |-> s.loaded_plugins])

---------------------------------------------------------------------------
(* ConfigManager on the configuration tree (src/core/config.py) *)

\* JSON values: with Str and Null, the mapping (dict), the sequence (list),
\* the boolean and the number.  A string value is a sequence of characters;
\* a name or a word that holds none of $ { } . counts as one character.
Map(f) == [t |-> "map", v |-> f]
List(q) == [t |-> "list", v |-> q]
Bool(b) == [t |-> "bool", v |-> b]
Num(n) == [t |-> "num", v |-> n]
IsMap(x) == x.t = "map"

\* s[:i] up to the first "." of s, and what follows that "."
BeforeDot(s) ==
    IF \E i \in DOMAIN s : s[i] = "."
    THEN SubSeq(s, 1, (CHOOSE i \in DOMAIN s : s[i] = "." /\ \A j \in 1..(i - 1) : s[j] # ".") - 1)
    ELSE s
AfterDot(s) == SubSeq(s, Len(BeforeDot(s)) + 2, Len(s))

\* key_path.split("."): the keys between the dots, "" for an empty one.
RECURSIVE Split(_)
Split(key_path) ==
    LET key == IF BeforeDot(key_path) = <<>> THEN "" ELSE BeforeDot(key_path)[1]
    IN  IF \E i \in DOMAIN key_path : key_path[i] = "."
        THEN <<key>> \o Split(AfterDot(key_path))
        ELSE <<key>>

\* A ConfigManager call in progress.
BeginConfig(tree) == [config |-> tree, exc |-> "", result |-> Null, log |-> <<>>]

\* value[2:-1]
EnvVar_KeepsBrace(value) == SubSeq(value, 3, Len(value))
EnvVar(value) == SubSeq(value, 3, Len(value) - 1)

\* os.environ.get(env_var, "")
EnvironGet(env, env_var) == IF env_var \in DOMAIN env THEN env[env_var] ELSE <<>>

\* _process_env_vars that would walk the lists too, one level deep.
RECURSIVE process_env_vars_WalksLists(_, _)
process_env_vars_WalksLists(config_dict, env) ==
    LET Replaced(value) ==
            IF /\ IsStr(value)
               /\ StartsWith(value.v, <<"$", "{">>)
               /\ EndsWith(value.v, <<"}">>)
            THEN Str(EnvironGet(env, EnvVar(value.v)))
            ELSE value
    IN  Map([key \in DOMAIN config_dict.v |->
            LET value == config_dict.v[key]
            IN  IF IsMap(value) THEN process_env_vars_WalksLists(value, env)
                ELSE IF value.t = "list"
                     THEN List([i \in DOMAIN value.v |-> Replaced(value.v[i])])
                     ELSE Replaced(value)])

\* _process_env_vars: the mappings are walked, the strings that start with
\* "${" and end with "}" are replaced, everything else is left.
RECURSIVE process_env_vars(_, _)
process_env_vars(config_dict, env) ==
    Map([key \in DOMAIN config_dict.v |->
            LET value == config_dict.v[key]
            IN  IF IsMap(value) THEN process_env_vars(value, env)
                ELSE IF /\ IsStr(value)
                        /\ StartsWith(value.v, <<"$", "{">>)
                        /\ EndsWith(value.v, <<"}">>)
                     THEN Str(EnvironGet(env, EnvVar(value.v)))
                     ELSE value])

\* _get_default_config
get_default_config ==
    Map([k1 \in {"server", "plugins"} |->
        IF k1 = "server"
        THEN Map([k2 \in {"name", "transport", "log_level", "debug"} |->
                CASE k2 = "name" -> Str(<<"template-mcp">>)
                  [] k2 = "transport" -> Str(<<"stdio">>)
                  [] k2 = "log_level" -> Str(<<"info">>)
                  [] k2 = "debug" -> Bool(TRUE)])
        ELSE Map([k2 \in {"directories", "hot_reload", "disabled"} |->
                CASE k2 = "directories" -> Map([t \in Kinds |-> Str(DefaultDir(t))])
                  [] k2 = "hot_reload" -> Bool(FALSE)
                  [] k2 = "disabled" -> List(<<>>)])])

\* The for loop of get: one key at a time, default at the first key that is
\* missing or whose parent is not a dict.
RECURSIVE GetWalk(_, _, _)
GetWalk(value, keys, default) ==
    IF keys = <<>> THEN value
    ELSE IF IsMap(value) /\ Head(keys) \in DOMAIN value.v
         THEN GetWalk(value.v[Head(keys)], Tail(keys), default)
         ELSE default

\* Mutant: only the first key of the path is looked up.
get_FirstKeyOnly(c, key_path, default) ==
    Return(c, GetWalk(c.config, <<Head(Split(key_path))>>, default))

\* ConfigManager.get
get(c, key_path, default) ==
    Return(c, GetWalk(c.config, Split(key_path), default))

\* The walk of set from `config` down: [tree, exc], tree the new value of
\* `config`.  `key not in config`, `config[key] = {}` and `config[key]` on a
\* str, list, number, boolean or None each end in TypeError, before anything
\* was written.
RECURSIVE SetWalk(_, _, _)
SetWalk(config_, keys, value) ==
    IF ~IsMap(config_) THEN [tree |-> config_, exc |-> "TypeError"]
    ELSE IF Len(keys) = 1
         THEN [tree |-> Map(Put(config_.v, keys[1], value)), exc |-> ""]
         ELSE LET key == Head(keys)
                  child == IF key \notin DOMAIN config_.v THEN Map(EmptyMap)
                           ELSE config_.v[key]
                  r == SetWalk(child, Tail(keys), value)
              IN  IF r.exc # "" THEN [tree |-> config_, exc |-> r.exc]
                  ELSE [tree |-> Map(Put(config_.v, key, r.tree)), exc |-> ""]

\* ConfigManager.set
set(c, key_path, value) ==
    LET r == SetWalk(c.config, Split(key_path), value)
    IN  IF r.exc # "" THEN Raise(c, r.exc)
        ELSE Return([c EXCEPT !.config = r.tree], Null)

\* str.upper, on the words a log level is written with.
Upper(s) ==
    [i \in DOMAIN s |->
        CASE s[i] = "info" -> "INFO"
          [] s[i] = "debug" -> "DEBUG"
          [] s[i] = "verbose" -> "VERBOSE"
          [] s[i] = "warning" -> "WARNING"
          [] s[i] = "error" -> "ERROR"
          [] OTHER -> s[i]]

\* The names getattr(logging, ...) gives a level for.
LoggingLevels ==
    {<<"CRITICAL">>, <<"FATAL">>, <<"ERROR">>, <<"WARNING">>, <<"WARN">>,
     <<"INFO">>, <<"DEBUG">>, <<"NOTSET">>}

\* The file at config_path: missing, not JSON, or the JSON value it holds.
NoDocument == [kind |-> "missing", value |-> Null]
BadDocument == [kind |-> "invalid", value |-> Null]
Document(value) == [kind |-> "json", value |-> value]

\* The try block of load_config.
LoadConfigBody(c, doc, env) ==
    IF doc.kind = "missing" THEN Raise(c, "FileNotFoundError")
    ELSE IF doc.kind = "invalid" THEN Raise(c, "JSONDecodeError")
    ELSE LET c1 == [c EXCEPT !.config = doc.value]
         IN  IF ~IsMap(doc.value) THEN Raise(c1, "AttributeError")
             ELSE LET c2 == [c1 EXCEPT !.config = process_env_vars(doc.value, env)]
                      log_level == get(c2, <<"server", ".", "log_level">>,
                                       Str(<<"info">>)).result
                  IN  IF ~IsStr(log_level) THEN Raise(c2, "AttributeError")
                      ELSE IF Upper(log_level.v) \notin LoggingLevels
                           THEN Raise(c2, "AttributeError")
                           ELSE [c2 EXCEPT !.log = Append(@, "loaded")]

\* Mutant: load_config without its except clause.
LoadConfigCatch_Propagate(c) == c

\* except Exception as e: logger.error(...); self.config = default
LoadConfigCatch(c) ==
    IF c.exc # ""
    THEN [c EXCEPT !.exc = "", !.log = Append(@, "load_failed"),
                   !.config = get_default_config]
    ELSE c

\* ConfigManager.load_config
load_config(c, doc, env) == LoadConfigCatch(LoadConfigBody(c, doc, env))

---------------------------------------------------------------------------
(* The state machine *)

\* The three tables of the registry.
Registry == <<loaded_plugins, plugin_paths, loaded_modules>>

\* The orders os.listdir can give the plugin ids in.
Orders == {o \in [1..Cardinality(Ids) -> Ids] : \A i, j \in DOMAIN o : i # j => o[i] # o[j]}

\* The configurations the process is started with: the default tree with
\* nothing or plugin a disabled, with and without hot reload, and a tree
\* whose prompts directory is null.
Configs ==
    {[directories |-> EmptyMap, disabled |-> {}, hot_reload |-> TRUE],
     [directories |-> EmptyMap, disabled |-> {"a"}, hot_reload |-> TRUE],
     [directories |-> EmptyMap, disabled |-> {"a"}, hot_reload |-> FALSE],
     [directories |-> [x \in {"prompts"} |-> Null], disabled |-> {}, hot_reload |-> TRUE]}

\* The record of a ConfigManager call that ended in c.
ConfigOp(op, key_path, arg, c, doc, env) ==
    [op |-> op, key_path |-> key_path, arg |-> arg, result |-> c.result,
     exc |-> c.exc, log |-> c.log, doc |-> doc, env |-> env]

\* The configurations of a deployment whose sampling or resources directory
\* is set to the path of a regular file.
DirConfigs ==
    {[directories |-> EmptyMap, disabled |-> {}, hot_reload |-> TRUE],
     [directories |-> [x \in {"sampling"} |-> Str(PlainFile)], disabled |-> {},
      hot_reload |-> TRUE],
     [directories |-> [x \in {"resources"} |-> Str(PlainFile)], disabled |-> {},
      hot_reload |-> TRUE]}

\* The server constructed with one of `configs`.
InitFrom(configs) ==
    /\ loaded_plugins = EmptyMap
    /\ plugin_paths = EmptyMap
    /\ loaded_modules = {}
    /\ config \in configs
    /\ watcher = [pc |-> IF config.hot_reload THEN "created" ELSE "off",
                  plugin_dirs |-> <<>>, file_mtimes |-> EmptyMap]
    /\ files = [slot \in FileSlots |-> NoFile]
    /\ clock = 0
    /\ lastOp = [op |-> "init", id |-> "", kind |-> "", result |-> "None",
                 exc |-> "", trace |-> <<>>]
    /\ view = [ref |-> "none", map |-> EmptyMap]
    /\ store = [config |-> Map(EmptyMap), writes |-> 0]
    /\ cfgOp = ConfigOp("init", <<>>, Null, BeginConfig(Map(EmptyMap)), NoDocument, EmptyMap)
    /\ loop = NoLoop

Init == InitFrom(Configs)

\* The call `op` ended in `call`: the registry it left, and the record of it.
Finish(op, plugin_id, plugin_type, call) ==
    \E s \in {call} :
        /\ loaded_plugins' = s.loaded_plugins
        /\ plugin_paths' = s.plugin_paths
        /\ loaded_modules' = s.loaded_modules
        /\ lastOp' = [op |-> op, id |-> plugin_id, kind |-> plugin_type,
                      result |-> s.result, exc |-> s.exc, trace |-> s.trace]

\* A plugin file is written (created, edited or touched).
WriteFile ==
    /\ clock < MaxClock
    /\ \E slot \in FileSlots : \E prof \in Contents(slot) :
          files' = [files EXCEPT ![slot] = [prof |-> prof, mtime |-> clock + 1]]
    /\ clock' = clock + 1
    /\ lastOp' = [op |-> "write", id |-> "", kind |-> "", result |-> "None",
                  exc |-> "", trace |-> <<>>]
    /\ UNCHANGED <<loaded_plugins, plugin_paths, loaded_modules, config, watcher,
                   view, store, cfgOp, loop>>

\* The id set has just taken off plugins.disabled after a scan skipped it,
\* "" when the last call was not such a set.
Reenabled ==
    IF /\ lastOp.op = "set_disabled"
       /\ lastOp.kind = "remove"
       /\ \E i \in DOMAIN lastOp.trace : lastOp.trace[i].id = lastOp.id
    THEN lastOp.id ELSE ""

\* MCPServer.load_plugins; the record names the id that was re-enabled for
\* this scan.
LoadAll ==
    /\ \E order \in Orders :
          Finish("load_all", Reenabled, "", load_all_plugins(Begin, order))
    /\ UNCHANGED <<config, files, clock, watcher, view, store, cfgOp, loop>>

\* _load_plugin_file called on its own, with the path and the kind a scan of
\* the kind's directory would give it.
Load ==
    /\ \E plugin_type \in Kinds, plugin_id \in Ids :
          /\ IsStr(get_plugin_directory(plugin_type))
          /\ Finish("load", plugin_id, plugin_type,
                    load_plugin_file(Begin, plugin_id,
                        PathJoin(get_plugin_directory(plugin_type).v, FileName(plugin_id)),
                        plugin_type))
    /\ UNCHANGED <<config, files, clock, watcher, view, store, cfgOp, loop>>

Reload ==
    /\ \E plugin_id \in Ids : Finish("reload", plugin_id, "", reload_plugin(Begin, plugin_id))
    /\ UNCHANGED <<config, files, clock, watcher, view, store, cfgOp, loop>>

Unload ==
    /\ \E plugin_id \in Ids : Finish("unload", plugin_id, "", unload_plugin(Begin, plugin_id))
    /\ UNCHANGED <<config, files, clock, watcher, view, store, cfgOp, loop>>

\* A plugin file is replaced by a symbolic link to nothing.
BreakLink ==
    /\ clock < MaxClock
    /\ \E slot \in {<<DefaultDir("tools"), "b">>} :
          files' = [files EXCEPT ![slot] = Dangling]
    /\ clock' = clock + 1
    /\ lastOp' = [op |-> "write", id |-> "", kind |-> "", result |-> "None",
                  exc |-> "", trace |-> <<>>]
    /\ UNCHANGED <<loaded_plugins, plugin_paths, loaded_modules, config, watcher,
                   view, store, cfgOp, loop>>

\* config_manager.set("plugins.disabled", ...) with plugin a, the id that has
\* a file in two directories, put on the list or taken off it.  The record of the call keeps what the scan just before
\* it skipped as disabled.
SetDisabled ==
    /\ \E plugin_id \in {"a"}, change \in {"add", "remove"} :
          LET disabled == IF change = "add" THEN config.disabled \cup {plugin_id}
                          ELSE config.disabled \ {plugin_id}
              IsSkip(e) == e.ev = "skip_disabled"
          IN  /\ disabled # config.disabled
              /\ config' = [config EXCEPT !.disabled = disabled]
              /\ lastOp' = [op |-> "set_disabled", id |-> plugin_id, kind |-> change,
                            result |-> "None", exc |-> "",
                            trace |-> IF lastOp.op = "load_all"
                                      THEN SelectSeq(lastOp.trace, IsSkip) ELSE <<>>]
    /\ UNCHANGED <<loaded_plugins, plugin_paths, loaded_modules, files, clock, watcher,
                   view, store, cfgOp, loop>>

\* One cycle of the watcher, from its start or its sleep to its next sleep;
\* an exception that leaves the loop ends the task.
WatcherCycle ==
    /\ watcher.pc \notin {"off", "dead"}
    /\ \E order \in Orders :
          \E plugin_dirs \in {IF watcher.pc = "created" THEN PluginDirs
                              ELSE watcher.plugin_dirs} :
          \E s \in {watch_files(Begin, plugin_dirs, order)} :
              /\ Finish("watch", "", "", s)
              /\ watcher' = [pc |-> IF s.exc # "" THEN "dead" ELSE "sleeping",
                             plugin_dirs |-> plugin_dirs,
                             file_mtimes |-> s.file_mtimes]
    /\ UNCHANGED <<config, files, clock, view, store, cfgOp, loop>>

\* The loader's public operations, the watcher and the file system.
\* The dict the caller holds: the registry's own when no copy was made.
ViewMap == IF view.ref = "registry" THEN loaded_plugins ELSE view.map

\* A caller asks for the loaded plugins and keeps what it is given.
GetLoaded ==
    /\ view' = get_loaded_plugins(Begin).result
    /\ lastOp' = [op |-> "get_loaded", id |-> "", kind |-> "", result |-> "dict",
                  exc |-> "", trace |-> <<>>]
    /\ UNCHANGED <<loaded_plugins, plugin_paths, loaded_modules, config, files, clock,
                   watcher, store, cfgOp, loop>>

\* The object a caller puts into the dict it was given.
CallerObject == [kind |-> "caller", id |-> "", prof |-> "ok", setup_done |-> FALSE]

\* The caller adds, replaces or removes an entry of the dict it was given.
MutateView ==
    /\ view.ref # "none"
    /\ \E plugin_id \in Ids, change \in {"put", "del"} :
          LET d == IF change = "del" THEN Del(ViewMap, plugin_id)
                   ELSE Put(ViewMap, plugin_id, CallerObject)
          IN  /\ d # ViewMap
              /\ IF view.ref = "registry"
                 THEN loaded_plugins' = d /\ view' = view
                 ELSE loaded_plugins' = loaded_plugins /\ view' = [view EXCEPT !.map = d]
              /\ lastOp' = [op |-> "mutate_view", id |-> plugin_id, kind |-> "",
                            result |-> "None", exc |-> "", trace |-> <<>>]
    /\ UNCHANGED <<plugin_paths, loaded_modules, config, files, clock, watcher,
                   store, cfgOp, loop>>

\* "${name}"
Ref(name) == <<"$", "{", name, "}">>

\* What the file at config_path can hold.
Documents ==
    {NoDocument, BadDocument,
     Document(Map(EmptyMap)),
     Document(List(<<Str(Ref("A"))>>)),
     Document(Map("server" :> Str(<<"x">>))),
     Document(Map("server" :> Map("log_level" :> Num(5)))),
     Document(Map("server" :> Map("log_level" :> Str(Ref("LEVEL"))))),
     Document(Map("server" :> Map("log_level" :> Str(<<"verbose">>))
                  @@ "token" :> Str(Ref("A")))),
     Document(Map("server" :> Map("name" :> Str(Ref("NAME"))
                                  @@ "log_level" :> Str(<<"debug">>))
                  @@ "plugins" :> Map("disabled" :> List(<<Str(Ref("A")),
                                                              Map("k" :> Str(Ref("A")))>>)
                                      @@ "hot_reload" :> Bool(TRUE))
                  @@ "token" :> Str(Ref("A")))),
     Document(Map("path" :> Str(Ref("A") \o <<"/">> \o Ref("B"))
                  @@ "deep" :> Map("er" :> Map("x" :> Str(Ref("B"))))
                  @@ "plain" :> Str(<<"text">>)
                  @@ "open" :> Str(<<"$", "{", "A">>)))}

\* The environments of the process.
Environs ==
    {EmptyMap,
     <<"A">> :> Ref("B") @@ <<"B">> :> <<"x">> @@ <<"LEVEL">> :> <<"debug">>,
     <<"A">> :> <<"va">> @@ <<"NAME">> :> <<"n">> @@ <<"LEVEL">> :> <<"verbose">>}

\* The keys of the paths asked for.
KeySeqs ==
    {<<"server">>, <<"server", "log_level">>, <<"server", "name", "first">>,
     <<"plugins", "disabled">>, <<"plugins", "disabled", "x">>,
     <<"deep", "er", "x">>, <<"tool_configs", "x">>, <<"server", "">>, <<"token">>}

\* ".".join(keys)
RECURSIVE Dotted(_)
Dotted(keys) ==
    LET first == IF Head(keys) = "" THEN <<>> ELSE <<Head(keys)>>
    IN  IF Len(keys) = 1 THEN first ELSE first \o <<".">> \o Dotted(Tail(keys))

KeyPaths == {Dotted(keys) : keys \in KeySeqs}
Defaults == {Null, Str(<<"D">>)}
SetValues == {Str(Ref("A")), Num(1)}

\* ConfigManager(config_path), or load_config called again.
LoadConfig ==
    /\ \E doc \in Documents, env \in Environs :
          LET c == load_config(BeginConfig(store.config), doc, env)
          IN  /\ store' = [config |-> c.config, writes |-> 0]
              /\ cfgOp' = ConfigOp("load", <<>>, Null, c, doc, env)
    /\ UNCHANGED <<loaded_plugins, plugin_paths, loaded_modules, config, files, clock,
                   watcher, lastOp, view, loop>>

ConfigGet ==
    /\ cfgOp.op # "init"
    /\ \E key_path \in KeyPaths, default \in Defaults :
          LET c == get(BeginConfig(store.config), key_path, default)
          IN  cfgOp' = ConfigOp("get", key_path, default, c, NoDocument, EmptyMap)
    /\ UNCHANGED <<loaded_plugins, plugin_paths, loaded_modules, config, files, clock,
                   watcher, lastOp, view, store, loop>>

ConfigSet ==
    /\ cfgOp.op # "init"
    /\ store.writes < MaxWrites
    /\ \E key_path \in KeyPaths, value \in SetValues :
          LET c == set(BeginConfig(store.config), key_path, value)
          IN  /\ store' = [config |-> c.config, writes |-> store.writes + 1]
              /\ cfgOp' = ConfigOp("set", key_path, value, c, NoDocument, EmptyMap)
    /\ UNCHANGED <<loaded_plugins, plugin_paths, loaded_modules, config, files, clock,
                   watcher, lastOp, view, loop>>

NextApi == WriteFile \/ LoadAll \/ Reload \/ Unload \/ WatcherCycle

Next == NextApi \/ Load

Spec == Init /\ [][Next]_vars

SpecApi == Init /\ [][NextApi]_vars

\* The server with hot reload, and a plugin directory that can hold a
\* dangling link; the event loop resumes the watcher after every sleep.
NextWatch == NextApi \/ BreakLink

SpecWatch == Init /\ [][NextWatch]_vars

\* The watcher is alive and the last call was not its cycle: a cycle can
\* run and changes lastOp, so <<WatcherCycle>>_vars is enabled.
CycleDue == watcher.pc \in {"created", "sleeping"} /\ lastOp.op # "watch"

\* The event loop resumes a sleeping task: a cycle that stays due is run.
\* This is what WF_vars(WatcherCycle) gives in the states where CycleDue.
SpecWatchFair == SpecWatch /\ ([]<>(~CycleDue) \/ []<><<WatcherCycle>>_vars)

\* The server and an operator who edits plugins.disabled while it runs.
NextSet == NextApi \/ SetDisabled

SpecSet == Init /\ [][NextSet]_vars

\* The server started with a plugin directory that is a regular file.
InitDirs == InitFrom(DirConfigs)

SpecDirs == InitDirs /\ [][NextApi]_vars

\* The configurations in which the directory of one kind is a string prefix
\* of the directory of a later kind: resources set to the parent directory
\* plugins, and prompts set to the directory of tools.
PrefixConfigs ==
    {[directories |-> [x \in {"resources"} |-> Str(<<"plugins">>)], disabled |-> {},
      hot_reload |-> TRUE],
     [directories |-> [x \in {"prompts"} |-> Str(DefaultDir("tools"))], disabled |-> {},
      hot_reload |-> TRUE]}

InitPrefix == InitFrom(PrefixConfigs)

SpecPrefix == InitPrefix /\ [][NextApi]_vars

\* The configurations of a server whose tools directory is edited while it
\* runs: the default tree, and a tree with tools at plugins/sampling, a
\* directory that does not exist.
MoveConfigs ==
    {[directories |-> EmptyMap, disabled |-> {}, hot_reload |-> TRUE],
     [directories |-> [x \in {"tools"} |-> Str(DefaultDir("sampling"))], disabled |-> {},
      hot_reload |-> TRUE]}

\* config_manager.set("plugins.directories.tools", value): the directory of
\* tools is moved to plugins/sampling or back to plugins/tools.
SetDirectory ==
    /\ \E plugin_type \in {"tools"} :
       \E value \in {Str(DefaultDir("tools")), Str(DefaultDir("sampling"))} :
          /\ get_plugin_directory(plugin_type) # value
          /\ config' = [config EXCEPT !.directories = Put(@, plugin_type, value)]
          /\ lastOp' = [op |-> "set_directory", id |-> "", kind |-> plugin_type,
                        result |-> "None", exc |-> "", trace |-> <<>>]
    /\ UNCHANGED <<loaded_plugins, plugin_paths, loaded_modules, files, clock, watcher,
                   view, store, cfgOp, loop>>

InitMove == InitFrom(MoveConfigs)

NextMove == WriteFile \/ LoadAll \/ Reload \/ WatcherCycle \/ SetDirectory

SpecMove == InitMove /\ [][NextMove]_vars

\* _load_plugin_file called for the id that the call just before unloaded,
\* with the path a scan of the kind's directory gives it.
LoadAgain ==
    /\ lastOp.op = "unload"
    /\ lastOp.result = "True"
    /\ \E plugin_type \in Kinds :
          /\ IsStr(get_plugin_directory(plugin_type))
          /\ Finish("load_again", lastOp.id, plugin_type,
                    load_plugin_file(Begin, lastOp.id,
                        PathJoin(get_plugin_directory(plugin_type).v, FileName(lastOp.id)),
                        plugin_type))
    /\ UNCHANGED <<config, files, clock, watcher, view, store, cfgOp, loop>>

\* The loader driven by a caller that loads, unloads and loads again.
NextAgain == WriteFile \/ LoadAll \/ Unload \/ LoadAgain

SpecAgain == Init /\ [][NextAgain]_vars

\* The record of a step of the watcher that calls nothing of the loader.
Step(op, plugin_id, s) ==
    lastOp' = [op |-> op, id |-> plugin_id, kind |-> "", result |-> "None",
               exc |-> s.exc, trace |-> s.trace]

\* The event loop starts the task or resumes it after the sleep: plugin_dirs
\* is computed when the task starts, and the for loop over it begins.
WatchBegin ==
    /\ watcher.pc \in {"created", "sleeping"}
    /\ \E plugin_dirs \in {IF watcher.pc = "created" THEN PluginDirs
                            ELSE watcher.plugin_dirs} :
          /\ watcher' = [watcher EXCEPT !.pc = "scanning", !.plugin_dirs = plugin_dirs]
          /\ loop' = [NoLoop EXCEPT !.dirs = plugin_dirs]
    /\ Step("watch_begin", "", Begin)
    /\ UNCHANGED <<loaded_plugins, plugin_paths, loaded_modules, config, files, clock,
                   view, store, cfgOp>>

\* for directory in plugin_dirs: os.path.exists, os.listdir.  An exception
\* here leaves both for loops and is logged by the outer except.
WatchNextDir ==
    /\ watcher.pc = "scanning"
    /\ loop.todo = <<>>
    /\ loop.dirs # <<>>
    /\ \E order \in Orders :
          LET directory == Head(loop.dirs)
          IN  IF ~IsStr(directory)
              THEN /\ loop' = NoLoop
                   /\ Step("watch_dir", "", WatchCycleCatch(Raise(Begin, "TypeError")))
              ELSE IF ~PathExists(directory.v)
              THEN /\ loop' = [loop EXCEPT !.dirs = Tail(@)]
                   /\ Step("watch_dir", "", Begin)
              ELSE IF directory.v \notin ExistingDirs
              THEN /\ loop' = NoLoop
                   /\ Step("watch_dir", "",
                           WatchCycleCatch(Raise(Begin, "NotADirectoryError")))
              ELSE /\ loop' = [loop EXCEPT !.dirs = Tail(@), !.directory = directory.v,
                                           !.todo = ListDir(directory.v, order)]
                   /\ Step("watch_dir", "", Begin)
    /\ UNCHANGED <<loaded_plugins, plugin_paths, loaded_modules, config, files, clock,
                   watcher, view, store, cfgOp>>

\* The check of one file: getmtime, the comparison, the record of the time
\* and the test `plugin_id in loaded_plugins`, which decides what is called.
WatchCheck ==
    /\ watcher.pc = "scanning"
    /\ loop.todo # <<>>
    /\ LET filename == Head(loop.todo)
           file_path == PathJoin(loop.directory, filename)
           plugin_id == PluginId(filename)
           mtime == FileAt(file_path).mtime
       IN  IF ~IsPluginFile(filename)
           THEN /\ loop' = [loop EXCEPT !.todo = Tail(@)]
                /\ watcher' = watcher
                /\ Step("watch_check", plugin_id, Begin)
           ELSE IF GetmtimeRaises(FileAt(file_path).prof)
           THEN /\ loop' = [loop EXCEPT !.todo = Tail(@)]
                /\ watcher' = watcher
                /\ Step("watch_check", plugin_id,
                        WatchFileCatch(Raise(Begin, "FileNotFoundError"), plugin_id))
           ELSE IF \/ file_path \notin DOMAIN watcher.file_mtimes
                   \/ watcher.file_mtimes[file_path] # mtime
           THEN /\ loop' = [loop EXCEPT
                               !.todo = Tail(@),
                               !.pending = [act |-> IF plugin_id \in DOMAIN loaded_plugins
                                                    THEN "reload" ELSE "load",
                                            id |-> plugin_id, file_path |-> file_path,
                                            seen |-> loaded_plugins]]
                /\ watcher' = [watcher EXCEPT
                                  !.pc = "checked",
                                  !.file_mtimes =
                                      RecordMtime(Begin, file_path, mtime).file_mtimes]
                /\ Step("watch_check", plugin_id, Begin)
           ELSE /\ loop' = [loop EXCEPT !.todo = Tail(@)]
                /\ watcher' = watcher
                /\ Step("watch_check", plugin_id, Begin)
    /\ UNCHANGED <<loaded_plugins, plugin_paths, loaded_modules, config, files, clock,
                   view, store, cfgOp>>

\* What the check decided is done: reload_plugin, or the lookup of the kind
\* and _load_plugin_file; the inner except logs what they raise.
WatchDispatch ==
    /\ watcher.pc = "checked"
    /\ LET p == loop.pending
           plugin_type == WatchType(loop.directory, 1)
           call == IF p.act = "reload"
                   THEN reload_plugin(Log(Begin, "changed", "", p.id), p.id)
                   ELSE IF plugin_type # ""
                        THEN load_plugin_file(Log(Begin, "new", plugin_type, p.id),
                                              p.id, p.file_path, plugin_type)
                        ELSE Begin
       IN  Finish("watch_dispatch", p.id, p.act, WatchFileCatch(call, p.id))
    /\ watcher' = [watcher EXCEPT !.pc = "scanning"]
    /\ loop' = [loop EXCEPT !.pending = NoPending]
    /\ UNCHANGED <<config, files, clock, view, store, cfgOp>>

\* The for loops are done, or an exception has left them: await
\* asyncio.sleep(5) gives the control back to the event loop.
WatchSleep ==
    /\ watcher.pc = "scanning"
    /\ loop.todo = <<>>
    /\ loop.dirs = <<>>
    /\ watcher' = [watcher EXCEPT !.pc = "sleeping"]
    /\ loop' = NoLoop
    /\ Step("watch", "", Begin)
    /\ UNCHANGED <<loaded_plugins, plugin_paths, loaded_modules, config, files, clock,
                   view, store, cfgOp>>

\* The main control flow calls the loader: the event loop runs its callback
\* only while the watcher task is not running.
MainFlow ==
    /\ watcher.pc \in SuspensionPoints
    /\ (LoadAll \/ Reload \/ Unload)

InitLoop == InitFrom({c \in Configs : c.hot_reload})

\* The event loop with the watcher task and the main flow; files are written
\* by other processes at any moment.
NextLoop ==
    \/ WriteFile
    \/ MainFlow
    \/ WatchBegin
    \/ WatchNextDir
    \/ WatchCheck
    \/ WatchDispatch
    \/ WatchSleep

SpecLoop == InitLoop /\ [][NextLoop]_vars

\* The registry and a caller of get_loaded_plugins.
NextView == WriteFile \/ LoadAll \/ Unload \/ GetLoaded \/ MutateView

SpecView == Init /\ [][NextView]_vars

\* A ConfigManager and its callers.
NextConfig == LoadConfig \/ ConfigGet \/ ConfigSet

InitConfig == InitFrom({c \in Configs : c.directories = EmptyMap /\ c.disabled = {}})

SpecConfig == InitConfig /\ [][NextConfig]_vars

---------------------------------------------------------------------------
(* Reading the record of the last call *)

\* The positions of the trace where `ev` was logged or called for plugin_id.
Events(trace, ev, plugin_id) ==
    {i \in DOMAIN trace : trace[i].ev = ev /\ trace[i].id = plugin_id}

\* The positions of the trace where some plugin's `ev` happened.
AnyEvents(trace, ev) == {i \in DOMAIN trace : trace[i].ev = ev}

\* The module names of plugin_id, one per kind.
ModuleNames(plugin_id) == {ModuleName(t, plugin_id) : t \in Kinds}

\* The path a scan of plugin_type's directory gives the file of plugin_id.
ScanPath(plugin_type, plugin_id) ==
    PathJoin(get_plugin_directory(plugin_type).v, FileName(plugin_id))

\* The scan of plugin_type's directory raises.
ScanRaises(plugin_type) ==
    LET d == get_plugin_directory(plugin_type)
    IN  ~IsStr(d) \/ (PathExists(d.v) /\ d.v \notin ExistingDirs)

\* The plugin files a LoadAll scan discovers: <<kind, id>>, for the kinds it
\* gets to.
Discovered ==
    {f \in Kinds \X Ids :
        \E i \in DOMAIN PluginTypes :
            /\ PluginTypes[i] = f[1]
            /\ \A j \in 1..i : ~ScanRaises(PluginTypes[j])
            /\ f[2] \in Listed(get_plugin_directory(f[1]).v)}

\* The ids of the discovered files that are not disabled, expose setup and
\* whose setup succeeds.
GoodIds ==
    {id \in Ids \ config.disabled :
        \E f \in Discovered :
            /\ f[2] = id
            /\ LET prof == FileAt(ScanPath(f[1], id)).prof
               IN  ~ExecRaises(prof) /\ HasSetup(prof) /\ ~SetupRaises(prof)}

---------------------------------------------------------------------------
(* Claims *)

\* C1: with the disabled list fixed, after any sequence of LoadAll scans,
\* watcher cycles, Reload and Unload calls, no id of plugins.disabled is in
\* the registry and no call has invoked its setup.
C1_DisabledNeverLoaded ==
    \A id \in config.disabled :
        /\ id \notin DOMAIN loaded_plugins
        /\ Events(lastOp.trace, "setup", id) = {}

\* C2: a Load whose identity key kind.id is already in loaded_modules invokes
\* no setup and leaves the three registry tables as they were.
C2_LoadIdempotent ==
    [][(/\ lastOp'.op = "load"
        /\ ModuleName(lastOp'.kind, lastOp'.id) \in loaded_modules)
       => (/\ Registry' = Registry
           /\ AnyEvents(lastOp'.trace, "setup") = {})]_vars

\* A Load has run for a key that was loaded already.
C2_Witness ==
    /\ lastOp.op = "load"
    /\ ModuleName(lastOp.kind, lastOp.id) \in loaded_modules
    /\ Events(lastOp.trace, "already_loaded", lastOp.id) # {}

\* C3: when the execution of the module or its setup raises during Load, the
\* exception does not reach the caller and the registry is as before the call.
C3_FailedLoadLeavesRegistry ==
    [][(/\ lastOp'.op = "load"
        /\ ModuleName(lastOp'.kind, lastOp'.id) \notin loaded_modules
        /\ LET prof == FileAt(ScanPath(lastOp'.kind, lastOp'.id)).prof
           IN  ExecRaises(prof) \/ SetupRaises(prof))
       => (lastOp'.exc = "" /\ Registry' = Registry)]_vars

\* A Load has called a setup that raised.
C3_Witness ==
    /\ lastOp.op = "load"
    /\ \E i \in Events(lastOp.trace, "setup", lastOp.id) : ~lastOp.trace[i].ok
    /\ lastOp.exc = ""

\* C4: after LoadAll on an empty registry the ids of GetLoaded() are exactly
\* the ids of the discovered files that are not disabled, expose setup and
\* whose setup succeeds: no failing file keeps another file from loading.
C4_LoadAllLoadsExactlyTheGood ==
    [][(/\ lastOp'.op = "load_all"
        /\ Registry = <<EmptyMap, EmptyMap, {}>>)
       => DOMAIN loaded_plugins' = GoodIds]_vars

\* A LoadAll that started with nothing loaded has seen a file fail and has
\* loaded a later file.
C4_Witness ==
    /\ lastOp.op = "load_all"
    /\ lastOp.trace # <<>>
    /\ lastOp.trace[1].seen = EmptyMap
    /\ \E i, j \in DOMAIN lastOp.trace :
          /\ i < j
          /\ lastOp.trace[i].ev = "load_failed"
          /\ lastOp.trace[j].ev = "loaded"
          /\ lastOp.trace[j].id \in DOMAIN loaded_plugins

\* C5: a module without setup is never registered: its Load changes no
\* registry table and raises nothing, and a LoadAll that meets such a file
\* still processes every other discovered file that is not disabled.
C5_NoSetupNeverRegistered ==
    /\ [](\A id \in DOMAIN loaded_plugins : HasSetup(loaded_plugins[id].prof))
    /\ []((lastOp.op = "load_all" /\ AnyEvents(lastOp.trace, "no_setup") # {})
          => \A f \in Discovered :
                f[2] \notin config.disabled
                => \E i \in DOMAIN lastOp.trace :
                      /\ lastOp.trace[i].kind = f[1]
                      /\ lastOp.trace[i].id = f[2]
                      /\ lastOp.trace[i].ev \in
                            {"loaded", "no_setup", "load_failed", "already_loaded"})
    /\ [][(/\ lastOp'.op = "load"
           /\ ModuleName(lastOp'.kind, lastOp'.id) \notin loaded_modules
           /\ FileAt(ScanPath(lastOp'.kind, lastOp'.id)).prof = "no_setup")
          => (lastOp'.exc = "" /\ Registry' = Registry)]_vars

\* A LoadAll has met a file without setup and has loaded a later file.
C5_Witness ==
    /\ lastOp.op = "load_all"
    /\ \E i, j \in DOMAIN lastOp.trace :
          /\ i < j
          /\ lastOp.trace[i].ev = "no_setup"
          /\ lastOp.trace[j].ev = "loaded"
          /\ lastOp.trace[i].id \notin DOMAIN loaded_plugins

\* C6: Unload of a loaded id calls the module's teardown exactly once when it
\* defines one and not at all otherwise, and the id is then absent from
\* GetLoaded().
C6_UnloadTearsDownAndRemoves ==
    [][(lastOp'.op = "unload" /\ lastOp'.id \in DOMAIN loaded_plugins)
       => (/\ Cardinality(AnyEvents(lastOp'.trace, "teardown")) =
                 (IF HasTeardown(loaded_plugins[lastOp'.id].prof) THEN 1 ELSE 0)
           /\ AnyEvents(lastOp'.trace, "teardown") =
                 Events(lastOp'.trace, "teardown", lastOp'.id)
           /\ lastOp'.id \notin DOMAIN loaded_plugins')]_vars

\* C7: when teardown raises during Unload the exception is caught and the id
\* is removed from the registry: module, source path and identity keys.
C7_RaisingTeardownStillRemoves ==
    (/\ lastOp.op = "unload"
     /\ \E i \in Events(lastOp.trace, "teardown", lastOp.id) : ~lastOp.trace[i].ok)
    => (/\ lastOp.exc = ""
        /\ lastOp.id \notin DOMAIN loaded_plugins
        /\ lastOp.id \notin DOMAIN plugin_paths
        /\ ModuleNames(lastOp.id) \cap loaded_modules = {})

\* C8: Reload or Unload of an id that has no registry record returns False,
\* calls neither setup nor teardown and leaves the registry tables unchanged.
C8_NotLoadedFails ==
    [][(lastOp'.op \in {"reload", "unload"} /\ lastOp'.id \notin DOMAIN loaded_plugins)
       => (/\ lastOp'.result = "False"
           /\ lastOp'.exc = ""
           /\ AnyEvents(lastOp'.trace, "setup") = {}
           /\ AnyEvents(lastOp'.trace, "teardown") = {}
           /\ Registry' = Registry)]_vars

\* A Reload of an id that is not in loaded_plugins has returned False, in a
\* state where an earlier Reload left the id's source path behind.
C8_Witness ==
    /\ lastOp.op = "reload"
    /\ lastOp.result = "False"
    /\ Events(lastOp.trace, "not_loaded", lastOp.id) # {}
    /\ lastOp.id \notin DOMAIN loaded_plugins
    /\ lastOp.id \in DOMAIN plugin_paths

\* C9: Reload never raises: in every state and for every outcome of the
\* import and the setup it returns True or False.
C9_ReloadNeverRaises ==
    lastOp.op = "reload" => (lastOp.exc = "" /\ lastOp.result \in {"True", "False"})

\* A Reload has caught the TypeError of its own body.
C9_Witness ==
    /\ lastOp.op = "reload"
    /\ Events(lastOp.trace, "reload_failed", lastOp.id) # {}
    /\ lastOp.exc = ""

\* C10: during and between calls every module in the registry has completed
\* its setup, and while a teardown runs in Unload the entry is still there
\* (it is removed only afterwards).
C10_RegisteredAfterSetup ==
    /\ \A id \in DOMAIN loaded_plugins : loaded_plugins[id].setup_done
    /\ \A i \in DOMAIN lastOp.trace :
          \A id \in DOMAIN lastOp.trace[i].seen : lastOp.trace[i].seen[id].setup_done
    /\ lastOp.op = "unload"
       => \A i \in AnyEvents(lastOp.trace, "teardown") :
             lastOp.trace[i].id \in DOMAIN lastOp.trace[i].seen

\* An Unload has run a teardown with the entry in the registry and has then
\* removed the entry.
C10_Witness ==
    /\ lastOp.op = "unload"
    /\ \E i \in AnyEvents(lastOp.trace, "teardown") :
          /\ lastOp.trace[i].ok
          /\ lastOp.id \in DOMAIN lastOp.trace[i].seen
    /\ lastOp.id \notin DOMAIN loaded_plugins

---------------------------------------------------------------------------
(* Claims about get_loaded_plugins and ConfigManager *)

\* C11: get_loaded_plugins returns a copy of the registry: the mapping it
\* gives holds the registry's entries at the time of the call, and a caller
\* that adds, replaces or removes entries of that mapping changes none of the
\* three tables of the registry.
C11_ReturnedMappingIsACopy ==
    [][/\ lastOp'.op = "get_loaded" => ViewMap' = loaded_plugins /\ Registry' = Registry
       /\ lastOp'.op = "mutate_view" => Registry' = Registry]_vars

C11_Witness ==
    /\ lastOp.op = "mutate_view"
    /\ view.ref = "copy"
    /\ loaded_plugins # EmptyMap
    /\ view.map # loaded_plugins

\* The keys of the path of the last ConfigManager call.
OpKeys == CHOOSE keys \in KeySeqs : Dotted(keys) = cfgOp.key_path

\* s[:-1]
Front(s) == SubSeq(s, 1, Len(s) - 1)

\* The value a tree stores under a sequence of keys, and whether it stores
\* one: every key is a key of the mapping the keys before it lead to.
RECURSIVE ValueAt(_, _)
ValueAt(tree, keys) ==
    IF keys = <<>> THEN tree ELSE ValueAt(tree, Front(keys)).v[keys[Len(keys)]]

RECURSIVE Present(_, _)
Present(tree, keys) ==
    \/ keys = <<>>
    \/ /\ Present(tree, Front(keys))
       /\ IsMap(ValueAt(tree, Front(keys)))
       /\ keys[Len(keys)] \in DOMAIN ValueAt(tree, Front(keys)).v

\* C12: get(path, D) never raises; it returns D when a key of the path is
\* absent or a value reached before the last key is not a mapping, and the
\* stored value otherwise.
C12_GetReturnsStoredOrDefault ==
    cfgOp.op = "get" =>
        /\ cfgOp.exc = ""
        /\ cfgOp.result = IF Present(store.config, OpKeys)
                          THEN ValueAt(store.config, OpKeys)
                          ELSE cfgOp.arg

\* A path that runs through a string or a list gave the default.
C12_Witness ==
    /\ cfgOp.op = "get"
    /\ cfgOp.arg # Null
    /\ cfgOp.result = cfgOp.arg
    /\ Len(OpKeys) = 3
    /\ Present(store.config, Front(OpKeys))
    /\ ~IsMap(ValueAt(store.config, Front(OpKeys)))

\* C13: load_config never raises, and after a load of a file that cannot
\* be read or parsed the store holds the built-in tree: transport stdio,
\* log level info, debug on, the four plugins/<kind> directories, nothing
\* disabled, hot reload off; a get after it works on that tree.
C13_LoadNeverRaises ==
    /\ cfgOp.op \in {"load", "get"} => cfgOp.exc = "" /\ IsMap(store.config)
    /\ (cfgOp.op = "load" /\ cfgOp.doc.kind \in {"missing", "invalid"}) =>
          /\ Present(store.config, <<"server", "transport">>)
          /\ ValueAt(store.config, <<"server", "transport">>) = Str(<<"stdio">>)
          /\ ValueAt(store.config, <<"server", "log_level">>) = Str(<<"info">>)
          /\ ValueAt(store.config, <<"server", "debug">>) = Bool(TRUE)
          /\ \A kind \in {"resources", "prompts", "tools", "sampling"} :
                ValueAt(store.config, <<"plugins", "directories", kind>>)
                    = Str(<<"plugins", "/", kind>>)
          /\ ValueAt(store.config, <<"plugins", "disabled">>) = List(<<>>)
          /\ ValueAt(store.config, <<"plugins", "hot_reload">>) = Bool(FALSE)

C13_Witness ==
    /\ cfgOp.op = "load"
    /\ cfgOp.doc.kind = "invalid"
    /\ "load_failed" \in {cfgOp.log[i] : i \in DOMAIN cfgOp.log}

\* The paths of a tree that lead through mappings to a value that is none.
RECURSIVE LeafPaths(_)
LeafPaths(tree) ==
    IF ~IsMap(tree) THEN {<<>>}
    ELSE UNION {{<<key>> \o keys : keys \in LeafPaths(tree.v[key])} : key \in DOMAIN tree.v}

\* A string of the exact form ${NAME}.
IsReference(value) ==
    /\ IsStr(value)
    /\ Len(value.v) = 4
    /\ value.v[1] = "$" /\ value.v[2] = "{" /\ value.v[4] = "}"
    /\ value.v[3] \notin {"$", "{", "}"}

\* C14: after a load that keeps the document, every string of the form
\* ${NAME} at any depth of its nested mappings is replaced by the value of
\* the environment variable NAME, or by the empty string when NAME is not
\* set; the value put in is not expanded again.
C14_ReferencesReplaced ==
    (cfgOp.op = "load" /\ cfgOp.doc.kind = "json" /\ cfgOp.log = <<"loaded">>) =>
        \A keys \in LeafPaths(cfgOp.doc.value) :
            LET value == ValueAt(cfgOp.doc.value, keys)
            IN  IsReference(value) =>
                    ValueAt(store.config, keys) =
                        Str(IF <<value.v[3]>> \in DOMAIN cfgOp.env
                            THEN cfgOp.env[<<value.v[3]>>] ELSE <<>>)

\* A reference three mappings deep was replaced, and one whose variable
\* holds a reference itself was replaced by that reference.
C14_Witness ==
    /\ cfgOp.op = "load"
    /\ cfgOp.log = <<"loaded">>
    /\ Present(cfgOp.doc.value, <<"deep", "er", "x">>)
    /\ ValueAt(store.config, <<"deep", "er", "x">>) = Str(<<"x">>)
    /\ cfgOp.env[<<"A">>] = <<"$", "{", "B", "}">>

\* C15: set(p, v) never raises, and a get(p, D) after it returns v.
C15_SetThenGet ==
    cfgOp.op = "set" =>
        /\ cfgOp.exc = ""
        /\ get(BeginConfig(store.config), cfgOp.key_path, Str(<<"D">>)).result = cfgOp.arg

---------------------------------------------------------------------------
(* Claims about the watcher *)

\* The files the watcher reaches in a cycle: those of a directory it was
\* given, with no directory before it that makes os.path.exists or
\* os.listdir raise.
WatchedSlots ==
    {slot \in FileSlots :
        /\ files[slot] # NoFile
        /\ \E i \in DOMAIN watcher.plugin_dirs :
              /\ watcher.plugin_dirs[i] = Str(slot[1])
              /\ \A j \in 1..i :
                    /\ IsStr(watcher.plugin_dirs[j])
                    /\ PathExists(watcher.plugin_dirs[j].v)
                          => watcher.plugin_dirs[j].v \in ExistingDirs}

\* The watcher is alive and every cycle ends in the sleep with every file it
\* reaches checked: the time of a readable file recorded, the failure of an
\* unreadable one logged.
C16_EveryFileChecked ==
    /\ config.hot_reload => watcher.pc \in {"created", "sleeping"}
    /\ lastOp.op = "watch" =>
          /\ lastOp.exc = ""
          /\ watcher.pc = "sleeping"
          /\ \A slot \in WatchedSlots :
                IF files[slot] = Dangling
                THEN Events(lastOp.trace, "check_failed", slot[2]) # {}
                ELSE /\ SlotPath(slot) \in DOMAIN watcher.file_mtimes
                     /\ watcher.file_mtimes[SlotPath(slot)] = files[slot].mtime

\* C16: the watcher never stops: an exception of a file's check does not
\* keep the other files of the cycle from being checked, every cycle ends
\* in the sleep, and with hot reload on a cycle always follows.
C16_WatcherNeverStops ==
    /\ []C16_EveryFileChecked
    /\ []<>(config.hot_reload => lastOp.op = "watch")

\* The check of b.py failed and a.py was checked after it in the same cycle.
C16_Witness ==
    /\ lastOp.op = "watch"
    /\ \E i \in Events(lastOp.trace, "check_failed", "b") :
          \E j \in Events(lastOp.trace, "first_seen", "a") \cup
                   Events(lastOp.trace, "modified", "a") : i < j

\* The files of plugin_id the watcher has a time for that is not the file's,
\* and those it has no time for.
ModifiedSlots(plugin_id) ==
    {slot \in WatchedSlots :
        /\ slot[2] = plugin_id
        /\ files[slot] # Dangling
        /\ SlotPath(slot) \in DOMAIN watcher.file_mtimes
        /\ watcher.file_mtimes[SlotPath(slot)] # files[slot].mtime}

UnseenSlots(plugin_id) ==
    {slot \in WatchedSlots :
        /\ slot[2] = plugin_id
        /\ files[slot] # Dangling
        /\ SlotPath(slot) \notin DOMAIN watcher.file_mtimes}

\* C17: a cycle after the first that finds the time of one file of a loaded plugin changed
\* calls reload_plugin for the id once and _load_plugin_file not at all; a
\* cycle that finds no time changed, and a cycle that follows a cycle with
\* nothing in between, calls neither.
C17_OneReloadPerChange ==
    [][(lastOp'.op = "watch" /\ watcher.pc = "sleeping") =>
        /\ \A plugin_id \in Ids :
              /\ ( /\ plugin_id \in DOMAIN loaded_plugins
                   /\ Cardinality(ModifiedSlots(plugin_id)) = 1
                   /\ UnseenSlots(plugin_id) = {} )
                    => /\ Cardinality(Events(lastOp'.trace, "changed", plugin_id)) = 1
                       /\ Events(lastOp'.trace, "new", plugin_id) = {}
              /\ (ModifiedSlots(plugin_id) = {} /\ UnseenSlots(plugin_id) = {})
                    => /\ Events(lastOp'.trace, "changed", plugin_id) = {}
                       /\ Events(lastOp'.trace, "new", plugin_id) = {}
        /\ lastOp.op = "watch" =>
              /\ AnyEvents(lastOp'.trace, "changed") = {}
              /\ AnyEvents(lastOp'.trace, "new") = {}]_vars

\* A cycle found a.py of the loaded plugin a modified and reloaded a once.
C17_Witness ==
    /\ lastOp.op = "watch"
    /\ Cardinality(Events(lastOp.trace, "modified", "a")) = 1
    /\ Cardinality(Events(lastOp.trace, "changed", "a")) = 1
    /\ Events(lastOp.trace, "new", "a") = {}

---------------------------------------------------------------------------
(* Claims about the scan and about reload *)

\* C18: an id a LoadAll scan skipped as disabled and that set then takes
\* off plugins.disabled is loaded by the next LoadAll scan, when its file is
\* good: the scan invokes its setup and the id is in the registry after it.
C18_EnabledIdLoadsOnNextScan ==
    (lastOp.op = "load_all" /\ lastOp.id # "" /\ lastOp.id \in GoodIds) =>
        /\ Events(lastOp.trace, "setup", lastOp.id) # {}
        /\ lastOp.id \in DOMAIN loaded_plugins

\* What the scan logged or invoked for the file of plugin_id in the
\* directory of plugin_type.
FileEvents(plugin_type, plugin_id, evs) ==
    {i \in DOMAIN lastOp.trace :
        /\ lastOp.trace[i].id = plugin_id
        /\ lastOp.trace[i].kind = plugin_type
        /\ lastOp.trace[i].ev \in evs}

\* C18, amended: the next LoadAll scan does not skip the id; it calls Load for
\* each file of the id it discovers, and for a good file whose identity key
\* was not loaded already Load invokes setup and the id is in the registry
\* after the scan; a key that was loaded already is left as it is.
C18_EnabledIdIsScannedAgain ==
    (lastOp.op = "load_all" /\ lastOp.id # "") =>
        /\ Events(lastOp.trace, "skip_disabled", lastOp.id) = {}
        /\ \A f \in Discovered :
              f[2] = lastOp.id =>
                 LET prof == FileAt(ScanPath(f[1], f[2])).prof
                 IN  /\ FileEvents(f[1], f[2], {"already_loaded", "setup", "no_setup",
                                                "load_failed"}) # {}
                     /\ ( /\ ~ExecRaises(prof) /\ HasSetup(prof) /\ ~SetupRaises(prof)
                          /\ FileEvents(f[1], f[2], {"already_loaded"}) = {} )
                           => /\ FileEvents(f[1], f[2], {"setup"}) # {}
                              /\ lastOp.id \in DOMAIN loaded_plugins

\* A scan right after a was taken off the list invoked a's setup.
C18_Witness ==
    /\ lastOp.op = "load_all"
    /\ lastOp.id = "a"
    /\ Events(lastOp.trace, "setup", "a") # {}
    /\ "a" \in DOMAIN loaded_plugins

\* C19: LoadAll raises nothing, whatever the plugin directories are, and
\* registers nothing when no directory holds a plugin file.
C19_LoadAllNeverRaises ==
    lastOp.op = "load_all" =>
        /\ lastOp.exc = ""
        /\ (\A slot \in FileSlots : files[slot] = NoFile) => loaded_plugins = EmptyMap

\* C20: a Reload of a loaded plugin whose module has a teardown invokes
\* that teardown before the setup of the new module, and the id is in the
\* registry after it.
C20_ReloadTearsDownFirst ==
    [][(/\ lastOp'.op = "reload"
        /\ lastOp'.id \in DOMAIN loaded_plugins
        /\ lastOp'.id \in DOMAIN plugin_paths
        /\ HasTeardown(loaded_plugins[lastOp'.id].prof))
       => /\ \E i \in Events(lastOp'.trace, "teardown", lastOp'.id) :
                \A j \in Events(lastOp'.trace, "setup", lastOp'.id) : i < j
          /\ lastOp'.id \in DOMAIN loaded_plugins']_vars

---------------------------------------------------------------------------
(* Claims about the life of a plugin id *)

\* C21: between the start and the end of a Reload call no teardown is
\* invoked, and the only lifecycle entry point invoked is the setup of the
\* module built from the id's file, once at most.
C21_ReloadInvokesOnlySetup ==
    lastOp.op = "reload" =>
        /\ AnyEvents(lastOp.trace, "teardown") = {}
        /\ AnyEvents(lastOp.trace, "setup") = Events(lastOp.trace, "setup", lastOp.id)
        /\ Cardinality(AnyEvents(lastOp.trace, "setup")) <= 1

\* A Reload has replaced the module loaded from prompts/a.py, which has a
\* teardown, and has invoked the setup of the new module.
C21_Witness ==
    /\ lastOp.op = "reload"
    /\ lastOp.result = "True"
    /\ \E i \in Events(lastOp.trace, "setup", lastOp.id) :
          /\ lastOp.trace[i].kind = "prompts"
          /\ lastOp.id \notin DOMAIN lastOp.trace[i].seen
    /\ lastOp.id \in DOMAIN loaded_plugins
    /\ HasTeardown(loaded_plugins[lastOp.id].prof)


\* C22: per plugin id the only transitions are Unloaded to Loaded by a Load,
\* Loaded to Loaded by a Reload and Loaded to Unloaded by an Unload: a Reload
\* of a loaded id leaves it loaded, and only Unload takes a loaded id out of
\* the registry.
C22_OnlyUnloadRemoves ==
    [][\A id \in Ids :
          /\ (lastOp'.op = "reload" /\ lastOp'.id = id /\ id \in DOMAIN loaded_plugins)
                => id \in DOMAIN loaded_plugins'
          /\ (id \in DOMAIN loaded_plugins /\ id \notin DOMAIN loaded_plugins')
                => (lastOp'.op = "unload" /\ lastOp'.id = id)
          /\ (id \notin DOMAIN loaded_plugins /\ id \in DOMAIN loaded_plugins')
                => lastOp'.op \in {"load", "load_all", "watch"}]_vars

\* C23: a Reload returns True only if the plugin is then registered with a
\* module whose setup the call invoked and that succeeded; a Reload whose
\* load failed (import error, no setup, setup raising) returns False.
C23_ReloadResultTellsOutcome ==
    lastOp.op = "reload" =>
        /\ lastOp.result = "True" =>
              /\ lastOp.id \in DOMAIN loaded_plugins
              /\ loaded_plugins[lastOp.id].setup_done
              /\ \E i \in Events(lastOp.trace, "setup", lastOp.id) : lastOp.trace[i].ok
        /\ ( \/ Events(lastOp.trace, "load_failed", lastOp.id) # {}
             \/ Events(lastOp.trace, "no_setup", lastOp.id) # {} )
              => lastOp.result = "False"


\* C24: a Reload that leaves the id registered has loaded it under the kind
\* it was registered with before: the module's kind and the set of identity
\* keys are the same after the call as before it, whatever the kinds'
\* directories are.
C24_ReloadKeepsIdentityKey ==
    [][(/\ lastOp'.op = "reload"
        /\ lastOp'.id \in DOMAIN loaded_plugins
        /\ lastOp'.id \in DOMAIN loaded_plugins')
       => /\ loaded_plugins'[lastOp'.id].kind = loaded_plugins[lastOp'.id].kind
          /\ loaded_modules' = loaded_modules]_vars


\* The stored path of plugin_id starts with the directory of no kind.
MatchesNoKind(plugin_id) ==
    \A t \in Kinds :
        /\ IsStr(get_plugin_directory(t))
        /\ ~StartsWith(plugin_paths[plugin_id], get_plugin_directory(t).v)

\* C25: a Reload of a loaded plugin whose stored path starts with the
\* directory of no kind, as the directories are configured at the call,
\* returns False, invokes no setup and leaves the three registry tables as
\* they were: the plugin stays loaded.
C25_UnknownKindLeavesRegistry ==
    [][(/\ lastOp'.op = "reload"
        /\ lastOp'.id \in DOMAIN loaded_plugins
        /\ lastOp'.id \in DOMAIN plugin_paths
        /\ MatchesNoKind(lastOp'.id))
       => /\ lastOp'.result = "False"
          /\ lastOp'.exc = ""
          /\ AnyEvents(lastOp'.trace, "setup") = {}
          /\ Registry' = Registry]_vars

\* A Reload found no kind for the path of a plugin that is loaded.
C25_Witness ==
    /\ lastOp.op = "reload"
    /\ Events(lastOp.trace, "unknown_type", lastOp.id) # {}
    /\ lastOp.id \in DOMAIN loaded_plugins
    /\ MatchesNoKind(lastOp.id)
    /\ lastOp.result = "False"


\* C28: the cycle that follows a set of plugins.directories.<kind> scans the
\* directories of the configuration as it is then: the list it goes through
\* is the current one, and every plugin file in the kind's new directory has
\* its modification time recorded and, when it loads, its plugin registered.
C28_CycleScansNewDirectory ==
    [][(lastOp.op = "set_directory" /\ lastOp'.op = "watch")
       => /\ watcher'.plugin_dirs = PluginDirs
          /\ \A slot \in FileSlots :
                (Str(slot[1]) = get_plugin_directory(lastOp.kind) /\ files[slot] # NoFile)
                   => /\ SlotPath(slot) \in DOMAIN watcher'.file_mtimes
                      /\ files[slot].prof \in {"ok", "ok_teardown", "ok_teardown_raises"}
                            => slot[2] \in DOMAIN loaded_plugins']_vars


\* C26: the Load that follows a successful Unload of its id is not the no-op
\* of a repeated load: it never finds the key loaded, it invokes the setup of
\* a file that can be imported and has one, and when that setup succeeds the
\* plugin is registered with its path and its identity key.
C26_LoadAfterUnloadLoads ==
    lastOp.op = "load_again" =>
        LET prof == FileAt(ScanPath(lastOp.kind, lastOp.id)).prof
        IN  /\ Events(lastOp.trace, "already_loaded", lastOp.id) = {}
            /\ (~ExecRaises(prof) /\ HasSetup(prof))
                  => Cardinality(Events(lastOp.trace, "setup", lastOp.id)) = 1
            /\ (~ExecRaises(prof) /\ HasSetup(prof) /\ ~SetupRaises(prof))
                  => /\ lastOp.id \in DOMAIN loaded_plugins
                     /\ loaded_plugins[lastOp.id].kind = lastOp.kind
                     /\ lastOp.id \in DOMAIN plugin_paths
                     /\ plugin_paths[lastOp.id] = ScanPath(lastOp.kind, lastOp.id)
                     /\ ModuleName(lastOp.kind, lastOp.id) \in loaded_modules

\* A plugin was unloaded and the Load after it has invoked setup and
\* registered it again.
C26_Witness ==
    /\ lastOp.op = "load_again"
    /\ Events(lastOp.trace, "setup", lastOp.id) # {}
    /\ Events(lastOp.trace, "loaded", lastOp.id) # {}
    /\ lastOp.id \in DOMAIN loaded_plugins
    /\ loaded_modules = {ModuleName(lastOp.kind, lastOp.id)}


\* C27: once set has added an id to plugins.disabled, the LoadAll scan that
\* follows and the Reload of the id that follows do not invoke the setup of
\* the id's plugin.
C27_DisabledIdNotSetUp ==
    [][(/\ lastOp.op = "set_disabled"
        /\ lastOp.kind = "add"
        /\ \/ lastOp'.op = "load_all"
           \/ lastOp'.op = "reload" /\ lastOp'.id = lastOp.id)
       => Events(lastOp'.trace, "setup", lastOp.id) = {}]_vars


\* The files of plugin_id a cycle reaches and finds with a modification time
\* that is not the one recorded before the cycle, or with none recorded.
DueSlots(plugin_id) ==
    {slot \in WatchedSlots' :
        /\ slot[2] = plugin_id
        /\ files[slot] # Dangling
        /\ \/ SlotPath(slot) \notin DOMAIN watcher.file_mtimes
           \/ watcher.file_mtimes[SlotPath(slot)] # files[slot].mtime}

\* The positions of the trace where a file of plugin_id was found new or
\* modified.
Found(trace, plugin_id) ==
    Events(trace, "first_seen", plugin_id) \cup Events(trace, "modified", plugin_id)

\* The entries of a trace from position i on, up to the next file found.
RECURSIVE Upto(_, _)
Upto(trace, i) ==
    IF i > Len(trace) \/ trace[i].ev \in {"first_seen", "modified"} THEN {}
    ELSE {i} \cup Upto(trace, i + 1)

\* C29: in every cycle, the first included, each plugin file the cycle
\* reaches whose modification time is unseen or differs from the recorded
\* one is dispatched once: Reload of its id when the id is in the registry at
\* that moment, Load with the kind whose configured directory holds the file
\* otherwise.
C29_WatcherDispatch ==
    [][lastOp'.op = "watch" =>
        \A plugin_id \in Ids :
            LET trace == lastOp'.trace
            IN  /\ Cardinality(Found(trace, plugin_id)) = Cardinality(DueSlots(plugin_id))
                /\ \A i \in Found(trace, plugin_id) :
                      /\ i + 1 \in DOMAIN trace
                      /\ trace[i + 1].id = plugin_id
                      /\ IF plugin_id \in DOMAIN trace[i].seen
                         THEN /\ trace[i + 1].ev = "changed"
                              /\ \E j \in Upto(trace, i + 2) :
                                    /\ trace[j].id = plugin_id
                                    /\ trace[j].ev \in {"reloaded", "unknown_type",
                                                        "reload_failed"}
                         ELSE /\ trace[i + 1].ev = "new"
                              /\ \E slot \in DueSlots(plugin_id) :
                                    get_plugin_directory(trace[i + 1].kind) = Str(slot[1])
                              /\ i + 2 \in DOMAIN trace
                              /\ trace[i + 2].id = plugin_id
                              /\ trace[i + 2].kind = trace[i + 1].kind
                              /\ trace[i + 2].ev \in {"already_loaded", "load_failed",
                                                      "setup", "no_setup"}]_vars


---------------------------------------------------------------------------
(* Claims about the watcher and the main flow on one event loop *)

\* The calls of the main control flow that change the registry.
MainOps == {"load_all", "reload", "unload"}

\* C30: the watcher and the main flow never interleave on the registry: no
\* LoadAll, Reload or Unload of the main flow runs while the watcher is
\* inside a cycle, the watcher gives up control only at its sleep, and the
\* registry that the reload or load of a file meets is the one the
\* membership check of that file saw.
C30_NoInterleaving ==
    /\ [](watcher.pc = "checked" =>
             /\ loop.pending.seen = loaded_plugins
             /\ loop.pending.act =
                   (IF loop.pending.id \in DOMAIN loaded_plugins THEN "reload" ELSE "load"))
    /\ [](lastOp.op = "watch_dispatch" =>
             /\ lastOp.kind = "reload" => Events(lastOp.trace, "not_loaded", lastOp.id) = {}
             /\ lastOp.kind = "load" => Events(lastOp.trace, "changed", lastOp.id) = {})
    /\ [][lastOp'.op \in MainOps => watcher.pc \notin {"scanning", "checked"}]_vars
    /\ [][(watcher.pc \in {"scanning", "checked"} /\ lastOp'.op \notin MainOps
           /\ watcher'.pc \notin {"scanning", "checked"})
          => (lastOp'.op = "watch" /\ watcher'.pc = "sleeping")]_vars

\* Inside a cycle the watcher has found a.py of the loaded plugin a changed
\* and has reloaded a, b.py being still to check.
C30_Witness ==
    /\ lastOp.op = "watch_dispatch"
    /\ lastOp.kind = "reload"
    /\ Events(lastOp.trace, "reloaded", lastOp.id) # {}
    /\ watcher.pc = "scanning"
    /\ loop.todo # <<>>


---------------------------------------------------------------------------
(* Claims about interpolation and the trees in use *)

\* C31: a load that keeps the document replaces a string only when the whole
\* string is one reference ${NAME}: every other string of its nested
\* mappings, "${A}/${B}" included, is after the load what the document held.
C31_OnlyWholeReferencesReplaced ==
    (cfgOp.op = "load" /\ cfgOp.doc.kind = "json" /\ cfgOp.log = <<"loaded">>) =>
        \A keys \in LeafPaths(cfgOp.doc.value) :
            LET value == ValueAt(cfgOp.doc.value, keys)
            IN  (IsStr(value) /\ ~IsReference(value)) =>
                    ValueAt(store.config, keys) = value


\* C32: a load that keeps the document leaves every sequence of its nested
\* mappings as the document held it, elements of the form ${NAME} and
\* mappings inside the sequence included.
C32_SequencesNotInterpolated ==
    (cfgOp.op = "load" /\ cfgOp.doc.kind = "json" /\ cfgOp.log = <<"loaded">>) =>
        \A keys \in LeafPaths(cfgOp.doc.value) :
            LET value == ValueAt(cfgOp.doc.value, keys)
            IN  value.t = "list" => ValueAt(store.config, keys) = value

\* A load with A set kept a sequence holding "${A}" and a mapping with "${A}",
\* next to a string "${A}" that was replaced.
C32_Witness ==
    /\ cfgOp.op = "load" /\ cfgOp.log = <<"loaded">>
    /\ <<"A">> \in DOMAIN cfgOp.env
    /\ Present(store.config, <<"plugins", "disabled">>)
    /\ ValueAt(store.config, <<"plugins", "disabled">>) =
           List(<<Str(Ref("A")), Map("k" :> Str(Ref("A")))>>)
    /\ ValueAt(store.config, <<"token">>) = Str(cfgOp.env[<<"A">>])


\* C38: the default tree is substituted only when the document cannot be read
\* or parsed: a document that parses as a mapping is, whatever its
\* server.log_level, loaded as that document with interpolation applied.
C38_DefaultOnlyWhenUnreadable ==
    (cfgOp.op = "load" /\ cfgOp.doc.kind = "json" /\ IsMap(cfgOp.doc.value)) =>
        /\ store.config = process_env_vars(cfgOp.doc.value, cfgOp.env)
        /\ cfgOp.log = <<"loaded">>


---------------------------------------------------------------------------
(* Claims about the registry's three collections *)

\* C34: after every completed call the ids that have a module handle are the
\* ids that have a recorded source path.
C34_HandlesMatchPaths == DOMAIN loaded_plugins = DOMAIN plugin_paths

\* C35: every identity key recorded as loaded has its own instance:
\* get_loaded_plugins maps the key's id to the module loaded for that key,
\* also when two kinds hold a file with the same id.
C35_OneInstancePerKey ==
    \A plugin_type \in Kinds, plugin_id \in Ids :
        ModuleName(plugin_type, plugin_id) \in loaded_modules =>
            LET GetLoadedMap == get_loaded_plugins(Begin).result.map
            IN  /\ plugin_id \in DOMAIN GetLoadedMap
                /\ GetLoadedMap[plugin_id].kind = plugin_type


---------------------------------------------------------------------------
(* The server started on plugin directories that already hold files *)

\* The plugin files present when the process starts: a plugin of id a in the
\* prompts directory and another of the same id in the tools directory.
ShippedFiles ==
    [slot \in FileSlots |->
        CASE slot = <<DefaultDir("prompts"), "a">> -> [prof |-> "ok_teardown", mtime |-> 0]
          [] slot = <<DefaultDir("tools"), "a">> -> [prof |-> "ok", mtime |-> 0]
          [] OTHER -> NoFile]

\* PluginLoader(self.mcp) with the default directories, nothing loaded yet.
InitShipped ==
    /\ loaded_plugins = EmptyMap
    /\ plugin_paths = EmptyMap
    /\ loaded_modules = {}
    /\ config \in {c \in Configs : c.directories = EmptyMap}
    /\ watcher = [pc |-> IF config.hot_reload THEN "created" ELSE "off",
                  plugin_dirs |-> <<>>, file_mtimes |-> EmptyMap]
    /\ files = ShippedFiles
    /\ clock = 0
    /\ lastOp = [op |-> "init", id |-> "", kind |-> "", result |-> "None",
                 exc |-> "", trace |-> <<>>]
    /\ view = [ref |-> "none", map |-> EmptyMap]
    /\ store = [config |-> Map(EmptyMap), writes |-> 0]
    /\ cfgOp = ConfigOp("init", <<>>, Null, BeginConfig(Map(EmptyMap)), NoDocument, EmptyMap)
    /\ loop = NoLoop

SpecShipped == InitShipped /\ [][NextApi]_vars

\* C36: no plugin is stuck unloadable: when a discovered file is valid, its
\* id is not disabled and the registry holds no entry for it, a LoadAll scan
\* invokes its setup and registers the id.
C36_NoPluginStuck ==
    [][lastOp'.op = "load_all" =>
        \A f \in Discovered :
            LET prof == FileAt(ScanPath(f[1], f[2])).prof
            IN  (/\ ~ExecRaises(prof) /\ HasSetup(prof) /\ ~SetupRaises(prof)
                 /\ f[2] \notin config.disabled
                 /\ f[2] \notin DOMAIN loaded_plugins)
                => (/\ \E i \in Events(lastOp'.trace, "setup", f[2]) :
                          lastOp'.trace[i].kind = f[1]
                    /\ f[2] \in DOMAIN loaded_plugins')]_vars


---------------------------------------------------------------------------
(* Claims about what the watcher remembers *)

\* The files of plugin_id whose recorded modification time is the file's.
RecordedSlots(plugin_id) ==
    {slot \in FileSlots :
        /\ slot[2] = plugin_id
        /\ files[slot] \notin {NoFile, Dangling}
        /\ SlotPath(slot) \in DOMAIN watcher.file_mtimes
        /\ watcher.file_mtimes[SlotPath(slot)] = files[slot].mtime}

\* The positions of the trace where a load or reload of plugin_id was
\* attempted, and those where one failed.
Attempts(trace, plugin_id) ==
    Events(trace, "new", plugin_id) \cup Events(trace, "changed", plugin_id)

Failures(trace, plugin_id) ==
    {i \in DOMAIN trace :
        /\ trace[i].id = plugin_id
        /\ \/ trace[i].ev \in {"load_failed", "no_setup", "reload_failed"}
           \/ trace[i].ev = "setup" /\ ~trace[i].ok}

\* C37: the watcher records a file's modification time before it attempts
\* the load or reload: after a cycle every file it found new or modified has
\* its time recorded, also when the attempt failed, and a cycle attempts no
\* file whose recorded time is still the file's.
C37_FailedFileNotRetried ==
    [][lastOp'.op = "watch" =>
        \A plugin_id \in Ids :
            /\ \A slot \in DueSlots(plugin_id) :
                  /\ SlotPath(slot) \in DOMAIN watcher'.file_mtimes
                  /\ watcher'.file_mtimes[SlotPath(slot)] = files[slot].mtime
            /\ Cardinality(Found(lastOp'.trace, plugin_id)) +
                   Cardinality(RecordedSlots(plugin_id))
                 <= Cardinality({slot \in FileSlots : slot[2] = plugin_id})
            /\ Cardinality(Attempts(lastOp'.trace, plugin_id))
                 <= Cardinality(Found(lastOp'.trace, plugin_id))
            /\ (RecordedSlots(plugin_id) = {slot \in FileSlots : slot[2] = plugin_id})
                  => /\ Attempts(lastOp'.trace, plugin_id) = {}
                     /\ Failures(lastOp'.trace, plugin_id) = {}]_vars

\* A cycle has passed over a file of a whose load failed in an earlier cycle:
\* the file's setup raises, its time is the recorded one, a is not loaded and
\* the cycle found nothing of a to attempt.
C37_Witness ==
    /\ lastOp.op = "watch"
    /\ Found(lastOp.trace, "a") = {}
    /\ Attempts(lastOp.trace, "a") = {}
    /\ "a" \notin DOMAIN loaded_plugins
    /\ \E slot \in RecordedSlots("a") : files[slot].prof = "setup_raises"


---------------------------------------------------------------------------
(* MCPServer.__init__ with an explicit config_path *)

\* The module src/core/config.py builds one ConfigManager when it is first
\* imported, and plugin_loader.py and server.py each import that object under
\* the name config_manager.  The variable `config` is the tree of that object:
\* PluginLoader reads its directories and its disabled list there.  With a
\* config_path, __init__ builds a second ConfigManager and assigns it to the
\* name config_manager of server.py alone; `store` is the tree of that one.

\* What the file at an explicit config_path can hold.
ServerDocuments ==
    {NoDocument,
     Document(Map(EmptyMap)),
     Document(Map("plugins" :> Map("disabled" :> List(<<Str(<<"a">>)>>)
                                   @@ "hot_reload" :> Bool(TRUE)))),
     Document(Map("plugins" :> Map("directories" :>
                                       Map("tools" :> Str(DefaultDir("prompts"))))))}

\* bool(value)
Truthy(value) ==
    CASE value.t = "bool" -> value.v
      [] value.t = "null" -> FALSE
      [] value.t = "num" -> value.v # 0
      [] value.t = "map" -> DOMAIN value.v # {}
      [] OTHER -> value.v # <<>>

\* plugin_id in get("plugins.disabled", []), on a tree
TreeDisabled(tree, plugin_id) ==
    LET disabled == get(BeginConfig(tree), <<"plugins", ".", "disabled">>, List(<<>>)).result
    IN  CASE disabled.t = "list" -> \E i \in DOMAIN disabled.v : disabled.v[i] = Str(<<plugin_id>>)
          [] disabled.t = "map" -> plugin_id \in DOMAIN disabled.v
          [] disabled.t = "str" -> \E i \in DOMAIN disabled.v : disabled.v[i] = plugin_id
          [] OTHER -> FALSE

\* get(f"plugins.directories.{plugin_type}", f"plugins/{plugin_type}"), on a tree
TreeDirectory(tree, plugin_type) ==
    get(BeginConfig(tree), <<"plugins", ".", "directories", ".", plugin_type>>,
        Str(DefaultDir(plugin_type))).result

\* MCPServer(name, config_path): the ConfigManager of config_path becomes
\* server.py's config_manager and the facade's config; the loader is built;
\* hot reload is set up when that tree asks for it.
Construct ==
    /\ cfgOp.op = "init"
    /\ lastOp.op \in {"init", "write"}
    /\ \E doc \in ServerDocuments, env \in {EmptyMap} :
          \E c \in {load_config(BeginConfig(Map(EmptyMap)), doc, env)} :
              /\ store' = [config |-> c.config, writes |-> 0]
              /\ cfgOp' = ConfigOp("construct", <<>>, Null, c, doc, env)
              /\ watcher' = [pc |-> IF Truthy(get(c, <<"plugins", ".", "hot_reload">>,
                                                  Bool(FALSE)).result)
                                    THEN "created" ELSE "off",
                             plugin_dirs |-> <<>>, file_mtimes |-> EmptyMap]
    /\ UNCHANGED <<loaded_plugins, plugin_paths, loaded_modules, config, files, clock,
                   lastOp, view, loop>>

\* The calls made on the loader of a constructed server.
ServerFlow ==
    /\ cfgOp.op = "construct"
    /\ (LoadAll \/ Reload \/ Unload)

NextServer == WriteFile \/ Construct \/ ServerFlow

SpecServer == Init /\ [][NextServer]_vars

\* C33: one ConfigTree is in use: after the server is constructed with an
\* explicit configuration path, the plugin directories and the disabled list
\* PluginLoader consults in a scan and in a reload are those of the tree
\* loaded from that path, the tree the watcher and the facade have.
C33_OneConfigTree ==
    cfgOp.op = "construct" =>
        /\ \A plugin_type \in Kinds :
              get_plugin_directory(plugin_type) = TreeDirectory(store.config, plugin_type)
        /\ \A plugin_id \in Ids :
              is_plugin_disabled(plugin_id) <=> TreeDisabled(store.config, plugin_id)
        /\ (watcher.pc # "off") <=>
              Truthy(get(BeginConfig(store.config), <<"plugins", ".", "hot_reload">>,
                         Bool(FALSE)).result)
        /\ lastOp.op = "load_all" =>
              \A plugin_id \in Ids :
                  TreeDisabled(store.config, plugin_id) =>
                      /\ Events(lastOp.trace, "setup", plugin_id) = {}
                      /\ plugin_id \notin DOMAIN loaded_plugins

=============================================================================
